---- MODULE Spec2Model ----
(***************************************************************************)
(* Change-detection engine of the marketplace monitor (core/scraper.py,    *)
(* models/database.py, adapters/base_adapter.py, main.py).                 *)
(*                                                                         *)
(* Spec      the engine driven call by call: start_scrape_run and          *)
(*           process_scraped_result applied to arbitrary scraped records.  *)
(* PassSpec  one run_scraper pass: scrape_all fans the platform tasks of   *)
(*           each item out to the worker pool (or runs them in turn), the  *)
(*           tasks reconcile under the engine's lock, store operations may *)
(*           raise, and the pending events are notified and marked.        *)
(* ApiSpec   the engine's run and notification calls in any order:         *)
(*           start_scrape_run, complete_scrape_run,                        *)
(*           get_pending_notifications, mark_notification_sent,            *)
(*           process_scraped_result.                                       *)
(* MatchSpec the matcher: BaseAdapter._is_exact_match applied to arbitrary *)
(*           titles and products, directly and as scrape_item applies it   *)
(*           to the item_config _scrape_platform builds.                   *)
(* LiveSpec  the pass of PassSpec under weak fairness of every step but   *)
(*           the adapter's scrape call, which may never return.            *)
(* InitSpec  initialize_database over runs of the program between which   *)
(*           the operator edits the enabled flags of platforms.yaml.       *)
(***************************************************************************)
EXTENDS Integers, Sequences, FiniteSets, TLC

\* ------------------------------------------------------------------ bounds
\* Number of process_scraped_result calls explored by Spec.
MaxCalls == 2
\* Number of store operations that raise during one pass of PassSpec.
MaxFaults == 2
\* Number of engine calls explored by ApiSpec.
MaxOps == 4
\* Length of the titles explored by MatchSpec.
MaxTitle == 4

\* ------------------------------------------------------------------ values
\* Python None for Optional[float] (ScrapedItem.price, Listing.price).
NoneF == -1
\* Python None for Optional[str] columns and fields.
NoneS == "<null>"

\* Prices the adapters can produce: float(digits) of the page text, or None.
Prices == {NoneF, 0, 1000, 1200}

\* ScrapedItem.status / Listing.status.
Statuses == {"available", "sold", "ended"}

\* Python truthiness of an Optional[float]: None and 0.0 are falsy.
TruthyF(p) == p # NoneF /\ p # 0

\* Python truthiness of an Optional[str]: None and "" are falsy.
TruthyS(s) == s # NoneS /\ s # ""

\* str(x) / f"{x}" of an Optional[float] holding an integral value.
StrPrice(p) == IF p = NoneF THEN "None" ELSE ToString(p) \o ".0"

\* (item_id, platform_id, url) triples the calls of Spec are made for.
Keys == { <<1, 1, "u1">>, <<1, 1, "u2">>, <<2, 1, "u1">> }

\* title, status_text, image_url, seller, description of a scraped record.
Texts ==
  { [title |-> "T1", status_text |-> "st1", image_url |-> "img1",
     seller |-> "sel1", description |-> "d1"],
    [title |-> "T2", status_text |-> "st2", image_url |-> "img2",
     seller |-> NoneS, description |-> ""] }

\* A ScrapedItem (metadata, a free-form dict the engine only stores, is left out).
ScrapedItem(url, price, status, txt) ==
  [title |-> txt.title, url |-> url, price |-> price, status |-> status,
   status_text |-> txt.status_text, image_url |-> txt.image_url,
   seller |-> txt.seller, description |-> txt.description]

\* ------------------------------------------------------------------ state
VARIABLES
  listings,      \* table listings: sequence of rows, id = position
  events,        \* table change_events
  prices,        \* table price_history
  runs,          \* table scrape_runs
  current_run,   \* ScraperEngine.current_run: id of the run, 0 for None
  clock,         \* value of the next datetime.utcnow()
  calls,         \* number of process_scraped_result calls made
  last,          \* the last call: its arguments, locals and return value, the
                 \* tables as it found them, and the call made before it
  adapters,      \* run_scraper's adapters dict: platform names in insertion order
  parallel,      \* run_scraper's parallel argument
  max_workers,   \* ScraperEngine.max_workers
  mpc,           \* where run_scraper (the main thread) stands
  item_ix,       \* position of scrape_all's loop over the items
  tasks,         \* the _scrape_platform call of each adapter for the current item
  lock,          \* holder of ScraperEngine._db_lock, "free" when not held
  stats,         \* scrape_all's stats dict
  faults,        \* store operations that raised so far
  pass,          \* record of the pass: what each scrape returned, which tasks
                 \* were invoked and which raised, the exception run_scraper
                 \* caught, its return value
  send_email,    \* run_scraper's send_email argument
  loaded,        \* Item and Platform objects of the engine's session whose
                 \* attributes are loaded (a commit expires them all)
  browsers,      \* adapters holding an open browser session
  db,            \* the engine's session: "none", "open" or "closed"
  disabled,      \* platforms whose row in table platforms has enabled = False
  no_keywords,   \* ids of the Item rows whose search_keywords list is empty
  platform_rows, \* table platforms: the names of its rows, id = position
  config_enabled, \* platform keys of platforms.yaml whose enabled is true
  stored_runs    \* table scrape_runs as last committed; runs is the session's
                 \* view of it, with the assignments not yet committed

storeVars == <<listings, events, prices, runs, current_run, clock>>
callVars == <<calls, last>>
\* What run_scraper is called with, what setup_adapters returned, and what
\* the pass finds in the tables platforms and items.
cfgVars ==
  <<adapters, parallel, max_workers, send_email, disabled, no_keywords,
    platform_rows, config_enabled>>
\* Sessions: the objects loaded in the store session, the browsers, the session.
sessVars == <<loaded, browsers, db>>
passVars == <<cfgVars, mpc, item_ix, tasks, lock, stats, faults, pass, sessVars>>
vars == <<storeVars, callVars, passVars, stored_runs>>

\* ------------------------------------------------------------------ rows
\* Mutant: a listing is created inactive.
NewListingInactive(id, item_id, platform_id, rec, now) ==
  [id |-> id, item_id |-> item_id, platform_id |-> platform_id,
   title |-> rec.title, url |-> rec.url, price |-> rec.price,
   image_url |-> rec.image_url, status |-> rec.status,
   status_text |-> rec.status_text, seller |-> rec.seller,
   description |-> rec.description,
   first_seen |-> now, last_seen |-> now, last_checked |-> now,
   is_active |-> FALSE]

NewListing(id, item_id, platform_id, rec, now) ==
  [id |-> id, item_id |-> item_id, platform_id |-> platform_id,
   title |-> rec.title, url |-> rec.url, price |-> rec.price,
   image_url |-> rec.image_url, status |-> rec.status,
   status_text |-> rec.status_text, seller |-> rec.seller,
   description |-> rec.description,
   first_seen |-> now, last_seen |-> now, last_checked |-> now,
   is_active |-> TRUE]

\* Mutant: an event is created without its listing's id.
ChangeEventNoListing(id, listing_id, event_type, description, old_value, new_value) ==
  [id |-> id, listing_id |-> 0, event_type |-> event_type,
   description |-> description, old_value |-> old_value,
   new_value |-> new_value, notified |-> FALSE]

\* Mutant: an event is created as already notified.
ChangeEventNotified(id, listing_id, event_type, description, old_value, new_value) ==
  [id |-> id, listing_id |-> listing_id, event_type |-> event_type,
   description |-> description, old_value |-> old_value,
   new_value |-> new_value, notified |-> TRUE]

ChangeEvent(id, listing_id, event_type, description, old_value, new_value) ==
  [id |-> id, listing_id |-> listing_id, event_type |-> event_type,
   description |-> description, old_value |-> old_value,
   new_value |-> new_value, notified |-> FALSE]

PriceHistory(id, listing_id, price, now) ==
  [id |-> id, listing_id |-> listing_id, price |-> price, recorded_at |-> now]

ScrapeRun(id, now) ==
  [id |-> id, started_at |-> now, completed_at |-> NoneF, status |-> "running",
   items_checked |-> 0, platforms_checked |-> 0, new_listings_found |-> 0,
   changes_detected |-> 0, errors |-> NoneS, error_count |-> 0]

\* ------------------------------------------------- process_scraped_result
\* Mutant: the filter takes the platform's id for item_id and the item's id
\* for platform_id.
ExistingListingSwapped(L, item_id, platform_id, url) ==
  LET hit == { i \in 1..Len(L) : /\ L[i].item_id = platform_id
                                 /\ L[i].platform_id = item_id
                                 /\ L[i].url = url }
  IN IF hit = {} THEN 0 ELSE CHOOSE i \in hit : \A j \in hit : i <= j

\* Mutant: the filter leaves platform_id out.
ExistingListingAnyPlatform(L, item_id, platform_id, url) ==
  LET hit == { i \in 1..Len(L) : L[i].item_id = item_id /\ L[i].url = url }
  IN IF hit = {} THEN 0 ELSE CHOOSE i \in hit : \A j \in hit : i <= j

\* db.query(Listing).filter_by(item_id, platform_id, url).first(): the id of
\* the first matching row, 0 when there is none.
ExistingListing(L, item_id, platform_id, url) ==
  LET hit == { i \in 1..Len(L) : /\ L[i].item_id = item_id
                                 /\ L[i].platform_id = platform_id
                                 /\ L[i].url = url }
  IN IF hit = {} THEN 0 ELSE CHOOSE i \in hit : \A j \in hit : i <= j

\* Mutant: every return to available counts as a restock.
StatusEventTypeAnyAvailable(old_status, new_status) ==
  IF new_status = "available" THEN "back_in_stock"
  ELSE IF new_status = "sold" THEN "sold_out"
  ELSE "status_change"

\* Mutant: the back_in_stock override is missing.
StatusEventTypeNoRestock(old_status, new_status) ==
  IF new_status = "sold" THEN "sold_out" ELSE "status_change"

\* The event type of a status difference.
StatusEventType(old_status, new_status) ==
  IF new_status = "available" /\ old_status = "sold" THEN "back_in_stock"
  ELSE IF new_status = "sold" THEN "sold_out"
  ELSE "status_change"

\* Mutant: the comparison with the stored price is missing.
PriceChangedAlways(l, rec) == TruthyF(rec.price)

\* Does the price branch of an existing listing fire?
PriceChanged(l, rec) == TruthyF(rec.price) /\ rec.price # l.price

\* Mutant: the status branch fires for a record that is sold only.
StatusChangedToSold(l, rec) == rec.status # l.status /\ rec.status = "sold"

\* Does the status branch of an existing listing fire?
StatusChanged(l, rec) == rec.status # l.status

\* Mutant: the incoming value is stored whatever it is.
MergeOverwrite(old, new) == new

\* Last-known-good merge of one optional text field.
Merge(old, new) == IF TruthyS(new) THEN new ELSE old

\* The branch "if not existing_listing": one row in each of listings and
\* change_events, one in price_history when the price is truthy.
CreateBranch(L, E, P, item_id, platform_id, rec, now) ==
  LET lid == Len(L) + 1
      ev  == ChangeEvent(Len(E) + 1, lid, "new_item",
                         "new item: " \o rec.title, NoneS,
                         IF TruthyF(rec.price)
                         THEN "Y" \o StrPrice(rec.price) ELSE "N/A")
  IN [listings |-> Append(L, NewListing(lid, item_id, platform_id, rec, now)),
      events   |-> Append(E, ev),
      prices   |-> IF TruthyF(rec.price)
                   THEN Append(P, PriceHistory(Len(P) + 1, lid, rec.price, now))
                   ELSE P,
      changes  |-> <<"new_item">>,
      listing  |-> lid]

\* The branch "else": update of the existing listing lid.
UpdateBranch(L, E, P, lid, rec, now) ==
  LET l   == L[lid]
      pc  == PriceChanged(l, rec)
      sc  == StatusChanged(l, rec)
      E1  == IF pc
             THEN Append(E, ChangeEvent(Len(E) + 1, lid, "price_change",
                      "price: Y" \o StrPrice(l.price) \o " -> Y" \o StrPrice(rec.price),
                      StrPrice(l.price), StrPrice(rec.price)))
             ELSE E
      E2  == IF sc
             THEN Append(E1, ChangeEvent(Len(E1) + 1, lid,
                      StatusEventType(l.status, rec.status),
                      "status: " \o l.status \o " -> " \o rec.status,
                      l.status, rec.status))
             ELSE E1
      l2  == [l EXCEPT !.last_seen = now, !.last_checked = now,
                       !.price = IF pc THEN rec.price ELSE @,
                       !.status = IF sc THEN rec.status ELSE @,
                       !.status_text = IF sc THEN rec.status_text ELSE @,
                       !.image_url = Merge(@, rec.image_url),
                       !.seller = Merge(@, rec.seller),
                       !.description = Merge(@, rec.description)]
  IN [listings |-> [L EXCEPT ![lid] = l2],
      events   |-> E2,
      prices   |-> IF pc
                   THEN Append(P, PriceHistory(Len(P) + 1, lid, rec.price, now))
                   ELSE P,
      changes  |-> (IF pc THEN <<"price_change">> ELSE <<>>)
                   \o (IF sc THEN <<StatusEventType(l.status, rec.status)>> ELSE <<>>),
      listing  |-> lid]

\* The body of process_scraped_result up to db.commit().
Reconcile(L, E, P, item_id, platform_id, rec, now) ==
  LET ex == ExistingListing(L, item_id, platform_id, rec.url)
  IN IF ex = 0
     THEN CreateBranch(L, E, P, item_id, platform_id, rec, now)
     ELSE UpdateBranch(L, E, P, ex, rec, now)

\* Mutant: changes_detected counts calls with changes, not changes.
CountChangesByOne(run, changes) ==
  IF changes = <<>> THEN run
  ELSE [run EXCEPT
          !.new_listings_found =
             IF \E i \in 1..Len(changes) : changes[i] = "new_item" THEN @ + 1 ELSE @,
          !.changes_detected = @ + 1]

\* "if self.current_run: if changes_detected: ..." on the run row.
CountChanges(run, changes) ==
  IF changes = <<>> THEN run
  ELSE [run EXCEPT
          !.new_listings_found =
             IF \E i \in 1..Len(changes) : changes[i] = "new_item" THEN @ + 1 ELSE @,
          !.changes_detected = @ + Len(changes)]

UpdateRunStats(R, cur, changes) ==
  IF cur = 0 THEN R ELSE [R EXCEPT ![cur] = CountChanges(@, changes)]

\* ------------------------------------------------------------ pass values
\* Platform names of the configuration, in configuration order.
AdapterNames == {"mercari", "surugaya"}

\* The adapters dicts setup_adapters can return.
AdapterDicts == { <<>>, <<"mercari">>, <<"mercari", "surugaya">> }

\* The sets of platform rows a pass can find with enabled = False: none, or
\* the row of surugaya (initialize_database leaves the flag of a row that
\* exists as it is).
DisabledRows == { {}, {"surugaya"} }

\* The sets of items a pass can find without search keywords: none, or the
\* first item.
NoKeywordSets == { {}, {1} }

\* Platform.id of a platform row, by name (rows are added in configuration order).
PlatformId(name) == IF name = "mercari" THEN 1 ELSE 2

\* Item.id of the rows of table items, as db.query(Item).all() lists them.
ItemIds == <<1, 2>>

\* max_workers values the passes are run with.
WorkerCounts == {1, 2}

\* The records the scrapes of PassSpec return.
RecA == ScrapedItem("u1", 1000, "available",
          [title |-> "T1", status_text |-> "st1", image_url |-> "img1",
           seller |-> "sel1", description |-> "d1"])
RecB == ScrapedItem("u1", 1200, "sold",
          [title |-> "T1", status_text |-> "st2", image_url |-> NoneS,
           seller |-> "sel2", description |-> ""])
RecC == ScrapedItem("u2", NoneF, "available",
          [title |-> "T2", status_text |-> NoneS, image_url |-> "img2",
           seller |-> NoneS, description |-> "d2"])

\* SearchResult.results of adapter.scrape_item: the matching records of the
\* urls found, each url once.
ScrapeResults == { <<>>, <<RecA>>, <<RecB, RecC>> }

\* What the search and the detail extraction of one scrape_item call come
\* to: the matching records and no error, or an exception (str(e) in error).
SearchOutcomes ==
  { [results |-> r, error |-> NoneS, searched |-> TRUE] : r \in ScrapeResults }
    \cup { [results |-> <<>>, error |-> "search failed", searched |-> TRUE] }

\* The tables an engine can find when it is constructed: empty, or holding the listing an earlier
\* process_scraped_result call made of RecA for item 1 on mercari.
PriorStores ==
  { [listings |-> <<>>, events |-> <<>>, prices |-> <<>>],
    LET r == Reconcile(<<>>, <<>>, <<>>, 1, PlatformId("mercari"), RecA, 0)
    IN [listings |-> r.listings, events |-> r.events, prices |-> r.prices] }

\* str(e) of the exception a store operation raises.
StoreError == "store unavailable"

\* result_stats of a _scrape_platform call, with the position of the call
\* and the records it still has to process.
IdleTask ==
  [pc |-> "idle", todo |-> <<>>, nresults |-> 0, new_listings |-> 0,
   changes |-> 0, error |-> FALSE, success |-> FALSE]

NoStats ==
  [items_checked |-> 0, platforms_checked |-> 0, new_listings |-> 0,
   changes |-> 0, errors |-> 0]

NoPass ==
  [scraped |-> [k \in {} |-> <<>>], invoked |-> {}, raised |-> {},
   caught |-> NoneS, returned |-> NoneS, overlapped |-> FALSE,
   listings0 |-> <<>>, events0 |-> <<>>, prices0 |-> <<>>,
   aggregated |-> {}, completes |-> 0,
   pending |-> <<>>, mark_ix |-> 0, sent |-> FALSE,
   constructed |-> {}, closed |-> {}, searched |-> {}, scrape_errors |-> {}]

\* ------------------------------------------------------------------ Spec
NoCall ==
  [op |-> "none", item_id |-> 0, platform_id |-> 0,
   rec |-> ScrapedItem("", NoneF, "", [title |-> "", status_text |-> NoneS,
                        image_url |-> NoneS, seller |-> NoneS, description |-> NoneS]),
   existing |-> 0, changes |-> <<>>, returned |-> 0,
   listings0 |-> <<>>, events0 |-> <<>>, prices0 |-> <<>>, runs0 |-> <<>>,
   prev_op |-> "none", prev_key |-> <<0, 0, "">>,
   prev_rec |-> ScrapedItem("", NoneF, "", [title |-> "", status_text |-> NoneS,
                        image_url |-> NoneS, seller |-> NoneS, description |-> NoneS])]

Init ==
  /\ \E st \in PriorStores :
        /\ listings = st.listings
        /\ events = st.events
        /\ prices = st.prices
  /\ runs = <<>>
  /\ current_run = 0
  /\ clock = 1
  /\ calls = 0
  /\ last = NoCall
  /\ adapters = <<>>
  /\ parallel = TRUE
  /\ max_workers = 4
  /\ mpc = "idle"
  /\ item_ix = 0
  /\ tasks = [n \in AdapterNames |-> IdleTask]
  /\ lock = "free"
  /\ stats = NoStats
  /\ faults = 0
  /\ pass = NoPass
  /\ send_email = TRUE
  /\ loaded = {}
  /\ browsers = {}
  /\ db = "open"
  /\ disabled = {}
  /\ no_keywords = {}
  /\ platform_rows = <<"mercari", "surugaya">>
  /\ config_enabled = AdapterNames
  /\ stored_runs = <<>>

\* ScraperEngine.start_scrape_run, as run_scraper uses it: once per engine,
\* before the first record is processed.
StartScrapeRun ==
  /\ current_run = 0
  /\ calls = 0
  /\ runs' = Append(runs, ScrapeRun(Len(runs) + 1, clock))
  /\ current_run' = Len(runs) + 1
  /\ clock' = clock + 1
  /\ last' = [NoCall EXCEPT !.op = "start", !.prev_op = last.op]
  /\ UNCHANGED <<listings, events, prices, calls, passVars>>
  /\ stored_runs' = runs'

\* ScraperEngine.process_scraped_result(item, platform, scraped_item).
ProcessScrapedResult ==
  /\ calls < MaxCalls
  /\ \E k \in Keys, p \in Prices, s \in Statuses, t \in Texts :
       LET rec == ScrapedItem(k[3], p, s, t)
           r   == Reconcile(listings, events, prices, k[1], k[2], rec, clock)
       IN /\ listings' = r.listings
          /\ events' = r.events
          /\ prices' = r.prices
          /\ runs' = UpdateRunStats(runs, current_run, r.changes)
          /\ last' = [op |-> "process", item_id |-> k[1], platform_id |-> k[2],
                      rec |-> rec,
                      existing |-> ExistingListing(listings, k[1], k[2], k[3]),
                      changes |-> r.changes,
                      returned |-> IF r.changes = <<>> THEN 0 ELSE r.listing,
                      listings0 |-> listings, events0 |-> events,
                      prices0 |-> prices, runs0 |-> runs,
                      prev_op |-> last.op,
                      prev_key |-> <<last.item_id, last.platform_id, last.rec.url>>,
                      prev_rec |-> last.rec]
  /\ clock' = clock + 1
  /\ calls' = calls + 1
  /\ UNCHANGED <<current_run, passVars>>
  /\ stored_runs' = runs

Next == StartScrapeRun \/ ProcessScrapedResult

Spec == Init /\ [][Next]_vars

\* -------------------------------------------------------------- PassSpec
PassInit ==
  /\ \E st \in PriorStores :
        /\ listings = st.listings
        /\ events = st.events
        /\ prices = st.prices
        /\ pass = [NoPass EXCEPT !.listings0 = st.listings,
                                 !.events0 = st.events, !.prices0 = st.prices]
  /\ runs = <<>>
  /\ current_run = 0
  /\ clock = 1
  /\ calls = 0
  /\ last = NoCall
  /\ adapters \in AdapterDicts
  /\ parallel \in BOOLEAN
  /\ max_workers \in WorkerCounts
  /\ send_email \in BOOLEAN
  /\ mpc = "init"
  /\ item_ix = 0
  /\ tasks = [n \in AdapterNames |-> IdleTask]
  /\ lock = "free"
  /\ stats = NoStats
  /\ faults = 0
  /\ loaded = {}
  /\ browsers = {}
  /\ db = "none"
  /\ stored_runs = <<>>
  /\ no_keywords \in NoKeywordSets
  /\ platform_rows = <<"mercari", "surugaya">>
  /\ config_enabled = { adapters[i] : i \in 1..Len(adapters) }
  /\ disabled \in { d \in DisabledRows : \A n \in d : \E i \in 1..Len(adapters) : adapters[i] = n }

Registered == { adapters[i] : i \in 1..Len(adapters) }

\* Position of an adapter in the dict's insertion order.
Position(n) == CHOOSE i \in 1..Len(adapters) : adapters[i] = n

\* scrape_all's test "parallel and len(self.adapters) > 1".
Concurrent == parallel /\ Len(adapters) > 1

\* Mutant: the pool is as wide as the adapters dict.
WidthOfDict == Len(adapters)

\* Tasks that may run at once: the pool's width, one in sequential mode.
Width == IF Concurrent THEN max_workers ELSE 1

Running(n) == tasks[n].pc \notin {"idle", "queued", "finished", "collected"}

\* A store operation may raise while fewer than MaxFaults have.
MayFault == faults < MaxFaults

\* An exception propagates to run_scraper's "except Exception as e".
RaiseToMain ==
  /\ mpc' = "except"
  /\ pass' = [pass EXCEPT !.caught = StoreError]
  /\ faults' = faults + 1

\* Mutant: the error text is not stored.
CompleteRunNoText(run, status, errors, now) ==
  [run EXCEPT !.completed_at = now, !.status = status]

\* complete_scrape_run's assignments to the run row.
CompleteRun(run, status, errors, now) ==
  [run EXCEPT !.completed_at = now, !.status = status,
              !.errors = IF TruthyS(errors) THEN errors ELSE @]

\* Mutant: the handler's increment of error_count is missing.
CountTaskErrorDropped(R, cur) == R

\* _scrape_platform's handler: "if self.current_run: error_count += 1".
CountTaskError(R, cur) ==
  IF cur = 0 THEN R ELSE [R EXCEPT ![cur].error_count = @ + 1]

\* scrape_all's aggregation of one result_stats.
Aggregate(st, t) ==
  IF t.success
  THEN [st EXCEPT !.platforms_checked = @ + 1,
                  !.new_listings = @ + t.new_listings,
                  !.changes = @ + t.changes]
  ELSE IF t.error THEN [st EXCEPT !.errors = @ + 1] ELSE st

\* Mutant: the lock stays with the task that leaves the "with" block.
ReleaseLockKept(holder) == holder

\* The end of a "with self._db_lock:" block, on every way out of it.
ReleaseLock(holder) == "free"

\* Mutant: a failed store operation loses the rows committed before it.
AfterFailureEmpty(T) == <<>>

\* A table after a store operation of a reconcile raised: the rows committed
\* before; what the call had added or changed is not committed.
AfterFailure(T) == T

\* The session object of an Item row.
ItemObject(id) == "item" \o ToString(id)

\* The session objects a task reads and finds expired.
Expired(objs) == objs \ loaded

\* Mutant: the next item starts when the first task of the item was
\* aggregated.
DrainedWhenFirstCollected == \E n \in Registered : tasks[n].pc = "collected"

\* Mutant: the next item starts as soon as the tasks are submitted.
DrainedWhenSubmitted == \A n \in Registered : tasks[n].pc # "idle"

\* scrape_all: every task of the current item returned and was aggregated
\* (the end of the as_completed loop and of the executor's "with" block, or
\* of the loop over the adapters).
Drained == \A n \in Registered : tasks[n].pc = "collected"

\* get_pending_notifications: db.query(ChangeEvent).filter_by(notified=False).all().
GetPendingNotifications(E) == SelectSeq(E, LAMBDA e : e.notified = FALSE)

\* Mutant: the update is not restricted to the event of the id.
MarkNotificationSentAll(E, event_id) ==
  [i \in 1..Len(E) |-> [E[i] EXCEPT !.notified = TRUE]]

\* mark_notification_sent: db.query(ChangeEvent).get(event_id), and
\* "if event: event.notified = True".
MarkNotificationSent(E, event_id) ==
  IF event_id \in 1..Len(E) THEN [E EXCEPT ![event_id].notified = TRUE] ELSE E

\* Mutant: the notifier reports success whatever happened.
SendChangeNotificationsAlways(enabled, delivered) == TRUE

\* EmailNotifier.send_change_notifications for a non-empty list of events:
\* False when mail is not enabled, True when the mail was built and sent,
\* False when building or sending it raised.
SendChangeNotifications(enabled, delivered) == enabled /\ delivered

\* Mutant: scrape_item searches whatever the keyword list holds.
ScrapeItemAnyKeywords(has_keywords, outcome) == outcome

\* BaseAdapter.scrape_item: the SearchResult it returns (with a field for
\* whether self.search was called).  Without keywords it returns at once,
\* with no result; an exception of the search or the extraction is caught
\* and returned in error, with no result.
ScrapeItem(has_keywords, outcome) ==
  IF ~has_keywords
  THEN [results |-> <<>>, error |-> "no keywords", searched |-> FALSE]
  ELSE outcome

\* Mutant: close_adapters closes the first adapter of the dict only.
CloseAdaptersFirst(open, dict) ==
  IF dict = <<>> THEN open ELSE open \ {dict[1]}

\* close_adapters: adapter.close() for every adapter of the dict; what stays
\* open.
CloseAdapters(open, dict) == open \ { dict[i] : i \in 1..Len(dict) }

\* run_scraper: engine.initialize_database(): init_db(), the session, the
\* platform and item rows and their commits.
InitializeDatabase ==
  /\ mpc = "init"
  /\ \/ /\ mpc' = "setup"
        /\ db' = "open"
        /\ UNCHANGED <<faults, pass>>
     \/ /\ MayFault
        /\ RaiseToMain
        /\ db' \in {"none", "open"}
  /\ UNCHANGED <<storeVars, callVars, cfgVars, item_ix, tasks, lock, stats,
                 loaded, browsers>>
  /\ UNCHANGED stored_runs

\* run_scraper: setup_adapters() and "if not adapters: return False".  The
\* adapters of the dict open their browser at their first search.
SetupAdapters ==
  /\ mpc = "setup"
  /\ IF adapters = <<>>
     THEN mpc' = "finally" /\ pass' = [pass EXCEPT !.returned = "False"]
     ELSE mpc' = "start" /\ pass' = [pass EXCEPT !.constructed = Registered]
  /\ UNCHANGED <<storeVars, callVars, cfgVars, item_ix, tasks, lock, stats,
                 faults, sessVars>>
  /\ UNCHANGED stored_runs

\* run_scraper: engine.start_scrape_run().
PassStartRun ==
  /\ mpc = "start"
  /\ \/ /\ runs' = Append(runs, ScrapeRun(Len(runs) + 1, clock))
        /\ current_run' = Len(runs) + 1
        /\ clock' = clock + 1
        /\ mpc' = "items"
        /\ stored_runs' = runs'
        /\ UNCHANGED <<faults, pass>>
     \/ /\ MayFault
        /\ RaiseToMain
        /\ UNCHANGED <<runs, current_run, clock, stored_runs>>
  /\ UNCHANGED <<listings, events, prices, callVars, cfgVars, item_ix, tasks,
                 lock, stats, sessVars>>

\* scrape_all: items = self.db.query(Item).all().
QueryItems ==
  /\ mpc = "items"
  /\ \/ /\ mpc' = "fanout"
        /\ item_ix' = 1
        /\ loaded' = { ItemObject(ItemIds[i]) : i \in 1..Len(ItemIds) }
        /\ UNCHANGED <<faults, pass>>
     \/ /\ MayFault
        /\ RaiseToMain
        /\ UNCHANGED <<item_ix, loaded>>
  /\ UNCHANGED <<storeVars, callVars, cfgVars, tasks, lock, stats, browsers, db>>
  /\ UNCHANGED stored_runs

\* scrape_all, concurrent mode: executor.submit of every adapter's task;
\* sequential mode: the call of the next adapter's _scrape_platform.
Submit ==
  /\ mpc = "fanout"
  /\ \E n \in Registered : tasks[n].pc = "idle"
  /\ IF Concurrent
     THEN tasks' = [n \in AdapterNames |->
                      IF n \in Registered THEN [IdleTask EXCEPT !.pc = "queued"]
                      ELSE tasks[n]]
     ELSE LET n == adapters[CHOOSE i \in 1..Len(adapters) :
                       /\ tasks[adapters[i]].pc = "idle"
                       /\ \A j \in 1..(i - 1) : tasks[adapters[j]].pc # "idle"]
          IN tasks' = [tasks EXCEPT ![n] = [IdleTask EXCEPT !.pc = "queued"]]
  /\ mpc' = "collect"
  /\ UNCHANGED <<storeVars, callVars, cfgVars, item_ix, lock, stats, faults,
                 pass, sessVars>>
  /\ UNCHANGED stored_runs

\* A worker thread (the main thread in sequential mode) enters
\* _scrape_platform: queued tasks start in submission order, at most Width
\* at a time.
TaskStart(n) ==
  /\ tasks[n].pc = "queued"
  /\ Cardinality({ m \in Registered : Running(m) }) < Width
  /\ \A m \in Registered : Position(m) < Position(n) => tasks[m].pc # "queued"
  /\ tasks' = [tasks EXCEPT ![n].pc = "lock_platform"]
  /\ pass' = [pass EXCEPT
                !.invoked = @ \cup {<<ItemIds[item_ix], n>>},
                !.overlapped = @ \/ (\E m \in Registered : Running(m))]
  /\ UNCHANGED <<storeVars, callVars, cfgVars, mpc, item_ix, lock, stats,
                 faults, sessVars>>
  /\ UNCHANGED stored_runs

\* "with self._db_lock:" before the platform query, before each
\* process_scraped_result body, and in the exception handler.
TaskLock(n) ==
  /\ tasks[n].pc \in {"lock_platform", "lock_reconcile", "lock_error"}
  /\ lock = "free"
  /\ lock' = n
  /\ tasks' = [tasks EXCEPT ![n].pc =
                 IF @ = "lock_platform" THEN "query_platform"
                 ELSE IF @ = "lock_reconcile" THEN "reconcile"
                 ELSE "count_error"]
  /\ UNCHANGED <<storeVars, callVars, cfgVars, mpc, item_ix, stats, faults,
                 pass, sessVars>>
  /\ UNCHANGED stored_runs

\* _scrape_platform: the query of the platform row, under the lock, and
\* "if not platform or not platform.enabled: return result_stats".  The rows
\* of the registered platforms exist after initialize_database.
TaskQueryPlatform(n) ==
  /\ tasks[n].pc = "query_platform"
  /\ lock = n
  /\ lock' = ReleaseLock(n)
  /\ \/ /\ tasks' = [tasks EXCEPT ![n].pc =
                       IF n \in disabled THEN "finished" ELSE "scrape"]
        /\ loaded' = loaded \cup {n}
        /\ UNCHANGED <<faults, pass>>
     \/ /\ MayFault
        /\ faults' = faults + 1
        /\ tasks' = [tasks EXCEPT ![n].pc = "lock_error", ![n].error = TRUE]
        /\ pass' = [pass EXCEPT
                      !.raised = @ \cup {<<ItemIds[item_ix], n, "platform">>}]
        /\ UNCHANGED loaded
  /\ UNCHANGED <<storeVars, callVars, cfgVars, mpc, item_ix, stats, browsers, db>>
  /\ UNCHANGED stored_runs

\* _scrape_platform: the log line and result = adapter.scrape_item(...),
\* outside the lock.  They read platform.name_cn and the item's attributes:
\* those that a commit has expired are loaded from the store through the
\* engine's session, without the lock.  The adapter opens its browser at its
\* first search.  pass.searched: the tasks whose scrape_item called the
\* search; pass.scrape_errors: those whose search or extraction raised.
TaskScrape(n) ==
  /\ tasks[n].pc = "scrape"
  /\ \E outcome \in SearchOutcomes :
        LET task   == <<ItemIds[item_ix], n>>
            result == ScrapeItem(ItemIds[item_ix] \notin no_keywords, outcome)
            r      == result.results
        IN /\ pass' = [pass EXCEPT
                         !.scraped =
                            [k \in DOMAIN @ \cup {task} |->
                               IF k = task THEN r ELSE @[k]],
                         !.searched =
                            IF result.searched THEN @ \cup {task} ELSE @,
                         !.scrape_errors =
                            IF result.searched /\ result.error # NoneS
                            THEN @ \cup {task} ELSE @]
           /\ tasks' = [tasks EXCEPT ![n] =
                          IF r = <<>>
                          THEN [@ EXCEPT !.pc = "finish"]
                          ELSE [@ EXCEPT !.pc = "lock_reconcile", !.todo = r,
                                         !.nresults = Len(r)]]
           /\ browsers' = IF result.searched THEN browsers \cup {n} ELSE browsers
  /\ loaded' = loaded \cup {n, ItemObject(ItemIds[item_ix])}
  /\ UNCHANGED <<storeVars, callVars, cfgVars, mpc, item_ix, lock, stats,
                 faults, db>>
  /\ UNCHANGED stored_runs

\* _scrape_platform: one turn of "for scraped_item in result.results", the
\* body of process_scraped_result under the lock.  A store operation of the
\* body that raises leaves the tables as they were and ends the task in its
\* handler.  The commit, or the rollback of a failed one, expires the objects
\* of the session.
TaskReconcile(n) ==
  /\ tasks[n].pc = "reconcile"
  /\ lock = n
  /\ lock' = ReleaseLock(n)
  /\ loaded' = {}
  /\ \/ LET r == Reconcile(listings, events, prices, ItemIds[item_ix],
                           PlatformId(n), Head(tasks[n].todo), clock)
            t == [tasks[n] EXCEPT !.todo = Tail(@),
                                  !.changes = IF r.changes # <<>> THEN @ + 1 ELSE @]
        IN /\ listings' = r.listings
           /\ events' = r.events
           /\ prices' = r.prices
           /\ runs' = UpdateRunStats(runs, current_run, r.changes)
           /\ stored_runs' = runs
           /\ clock' = clock + 1
           /\ tasks' = [tasks EXCEPT ![n] =
                          IF t.todo = <<>>
                          THEN [t EXCEPT !.pc = "finish"]
                          ELSE [t EXCEPT !.pc = "lock_reconcile"]]
           /\ UNCHANGED <<faults, pass>>
     \/ /\ MayFault
        /\ faults' = faults + 1
        /\ tasks' = [tasks EXCEPT ![n].pc = "lock_error", ![n].error = TRUE]
        /\ pass' = [pass EXCEPT
                      !.raised = @ \cup {<<ItemIds[item_ix], n, "reconcile">>}]
        /\ listings' = AfterFailure(listings)
        /\ events' = AfterFailure(events)
        /\ prices' = AfterFailure(prices)
        /\ UNCHANGED <<runs, clock, stored_runs>>
  /\ UNCHANGED <<current_run, callVars, cfgVars, mpc, item_ix, stats, browsers, db>>

\* _scrape_platform: after the loop, new_listings = len(result.results),
\* success = True and the log line, which reads platform.name_cn outside the
\* lock (from the store when a commit has expired the platform object).
TaskFinish(n) ==
  /\ tasks[n].pc = "finish"
  /\ tasks' = [tasks EXCEPT ![n].pc = "finished", ![n].success = TRUE,
                            ![n].new_listings = tasks[n].nresults]
  /\ loaded' = loaded \cup {n}
  /\ UNCHANGED <<storeVars, callVars, cfgVars, mpc, item_ix, lock, stats,
                 faults, pass, browsers, db>>
  /\ UNCHANGED stored_runs

\* _scrape_platform: "except Exception as e", the count under the lock.
TaskCountError(n) ==
  /\ tasks[n].pc = "count_error"
  /\ lock = n
  /\ lock' = ReleaseLock(n)
  /\ runs' = CountTaskError(runs, current_run)
  /\ tasks' = [tasks EXCEPT ![n].pc = "finished"]
  /\ UNCHANGED <<listings, events, prices, current_run, clock, callVars,
                 cfgVars, mpc, item_ix, stats, faults, pass, sessVars>>
  /\ UNCHANGED stored_runs

\* scrape_all: the aggregation of a finished task's result_stats.
Collect(n) ==
  /\ mpc = "collect"
  /\ tasks[n].pc = "finished"
  /\ stats' = Aggregate(stats, tasks[n])
  /\ tasks' = [tasks EXCEPT ![n].pc = "collected"]
  /\ mpc' = IF Concurrent THEN "collect" ELSE "fanout"
  /\ pass' = [pass EXCEPT !.aggregated = @ \cup {<<ItemIds[item_ix], n>>}]
  /\ UNCHANGED <<storeVars, callVars, cfgVars, item_ix, lock, faults, sessVars>>
  /\ UNCHANGED stored_runs

\* scrape_all: the end of one turn of "for item in items".
NextItem ==
  /\ mpc \in {"fanout", "collect"}
  /\ Drained
  /\ stats' = [stats EXCEPT !.items_checked = @ + 1]
  /\ tasks' = [n \in AdapterNames |-> IdleTask]
  /\ IF item_ix < Len(ItemIds)
     THEN item_ix' = item_ix + 1 /\ mpc' = "fanout"
     ELSE item_ix' = item_ix /\ mpc' = "final_lock"
  /\ UNCHANGED <<storeVars, callVars, cfgVars, lock, faults, pass, sessVars>>
  /\ UNCHANGED stored_runs

\* scrape_all: "with self._db_lock:" of the final update.
FinalLock ==
  /\ mpc = "final_lock"
  /\ lock = "free"
  /\ lock' = "main"
  /\ mpc' = "final_commit"
  /\ UNCHANGED <<storeVars, callVars, cfgVars, item_ix, tasks, stats, faults,
                 pass, sessVars>>
  /\ UNCHANGED stored_runs

\* scrape_all: the run's items_checked and platforms_checked, and db.commit().
FinalCommit ==
  /\ mpc = "final_commit"
  /\ lock' = ReleaseLock("main")
  /\ loaded' = {}
  /\ \/ /\ runs' = IF current_run = 0 THEN runs
                   ELSE [runs EXCEPT
                           ![current_run].items_checked = stats.items_checked,
                           ![current_run].platforms_checked = stats.platforms_checked]
        /\ mpc' = "complete"
        /\ stored_runs' = runs'
        /\ UNCHANGED <<faults, pass>>
     \/ /\ MayFault
        /\ RaiseToMain
        /\ UNCHANGED <<runs, stored_runs>>
  /\ UNCHANGED <<listings, events, prices, current_run, clock, callVars,
                 cfgVars, item_ix, tasks, stats, browsers, db>>

\* run_scraper: engine.complete_scrape_run('completed').
PassComplete ==
  /\ mpc = "complete"
  /\ \/ /\ runs' = [runs EXCEPT
                      ![current_run] = CompleteRun(@, "completed", NoneS, clock)]
        /\ clock' = clock + 1
        /\ mpc' = "pending"
        /\ pass' = [pass EXCEPT !.completes = @ + 1]
        /\ stored_runs' = runs'
        /\ UNCHANGED faults
     \/ /\ MayFault
        /\ mpc' = "except"
        /\ pass' = [pass EXCEPT !.caught = StoreError, !.completes = @ + 1]
        /\ faults' = faults + 1
        /\ UNCHANGED <<runs, clock, stored_runs>>
  /\ UNCHANGED <<listings, events, prices, current_run, callVars, cfgVars,
                 item_ix, tasks, lock, stats, sessVars>>

\* run_scraper: pending_events = engine.get_pending_notifications() and the
\* test "if send_email and pending_events"; return True when it fails.
PassPending ==
  /\ mpc = "pending"
  /\ \/ /\ LET pend == GetPendingNotifications(events)
               ids  == [i \in 1..Len(pend) |-> pend[i].id]
           IN IF send_email /\ ids # <<>>
              THEN /\ mpc' = "notify"
                   /\ pass' = [pass EXCEPT !.pending = ids]
              ELSE /\ mpc' = "finally"
                   /\ pass' = [pass EXCEPT !.pending = ids, !.returned = "True"]
        /\ UNCHANGED faults
     \/ /\ MayFault
        /\ RaiseToMain
  /\ UNCHANGED <<storeVars, callVars, cfgVars, item_ix, tasks, lock, stats,
                 sessVars>>
  /\ UNCHANGED stored_runs

\* run_scraper: the report (ReportGenerator reads the store through a
\* session of its own and may raise) and
\* EmailNotifier.send_change_notifications, which returns False when mail is
\* disabled or the sending failed and raises nothing.  pass.sent: the mail
\* with the pending events went out.
PassSendNotifications ==
  /\ mpc = "notify"
  /\ \/ /\ \E enabled \in BOOLEAN, delivered \in BOOLEAN :
             IF SendChangeNotifications(enabled, delivered)
             THEN /\ mpc' = "mark"
                  /\ pass' = [pass EXCEPT !.sent = enabled /\ delivered,
                                          !.mark_ix = 1]
             ELSE /\ mpc' = "finally"
                  /\ pass' = [pass EXCEPT !.sent = enabled /\ delivered,
                                          !.returned = "True"]
        /\ UNCHANGED faults
     \/ /\ MayFault
        /\ RaiseToMain
  /\ UNCHANGED <<storeVars, callVars, cfgVars, item_ix, tasks, lock, stats,
                 sessVars>>
  /\ UNCHANGED stored_runs

\* run_scraper: one turn of "for event in pending_events:
\* engine.mark_notification_sent(event.id)"; return True after the last.
PassMarkSent ==
  /\ mpc = "mark"
  /\ \/ /\ events' = MarkNotificationSent(events, pass.pending[pass.mark_ix])
        /\ IF pass.mark_ix < Len(pass.pending)
           THEN /\ mpc' = "mark"
                /\ pass' = [pass EXCEPT !.mark_ix = @ + 1]
           ELSE /\ mpc' = "finally"
                /\ pass' = [pass EXCEPT !.returned = "True"]
        /\ stored_runs' = runs
        /\ UNCHANGED faults
     \/ /\ MayFault
        /\ RaiseToMain
        /\ UNCHANGED <<events, stored_runs>>
  /\ UNCHANGED <<listings, prices, runs, current_run, clock, callVars, cfgVars,
                 item_ix, tasks, lock, stats, sessVars>>

\* run_scraper: "except Exception as e": complete_scrape_run('failed',
\* str(e)) when a run is current, then return False.  The commit of that
\* call may raise in turn, and run_scraper then raises.
PassFailed ==
  /\ mpc = "except"
  /\ mpc' = "finally"
  /\ \/ /\ current_run = 0
        /\ pass' = [pass EXCEPT !.returned = "False"]
        /\ UNCHANGED <<runs, clock, faults, stored_runs>>
     \/ /\ current_run # 0
        /\ runs' = [runs EXCEPT
                      ![current_run] = CompleteRun(@, "failed", pass.caught, clock)]
        /\ clock' = clock + 1
        /\ pass' = [pass EXCEPT !.returned = "False", !.completes = @ + 1]
        /\ stored_runs' = runs'
        /\ UNCHANGED faults
     \/ /\ current_run # 0
        /\ MayFault
        /\ faults' = faults + 1
        /\ pass' = [pass EXCEPT !.returned = "raised", !.completes = @ + 1]
        /\ UNCHANGED <<runs, clock, stored_runs>>
  /\ UNCHANGED <<listings, events, prices, current_run, callVars, cfgVars,
                 item_ix, tasks, lock, stats, sessVars>>

\* run_scraper: "finally": close_adapters(adapters), engine.close().  The
\* dict is empty when setup_adapters was not reached.
PassFinally ==
  /\ mpc = "finally"
  /\ mpc' = "done"
  /\ LET dict == IF pass.constructed = {} THEN <<>> ELSE adapters
     IN /\ browsers' = CloseAdapters(browsers, dict)
        /\ pass' = [pass EXCEPT !.closed = { dict[i] : i \in 1..Len(dict) }]
  /\ db' = IF db = "open" THEN "closed" ELSE db
  /\ UNCHANGED <<storeVars, callVars, cfgVars, item_ix, tasks, lock, stats,
                 faults, loaded>>
  /\ UNCHANGED stored_runs

PassNext ==
  \/ InitializeDatabase
  \/ SetupAdapters
  \/ PassStartRun
  \/ QueryItems
  \/ Submit
  \/ \E n \in Registered : TaskStart(n)
  \/ \E n \in Registered : TaskLock(n)
  \/ \E n \in Registered : TaskQueryPlatform(n)
  \/ \E n \in Registered : TaskScrape(n)
  \/ \E n \in Registered : TaskReconcile(n)
  \/ \E n \in Registered : TaskFinish(n)
  \/ \E n \in Registered : TaskCountError(n)
  \/ \E n \in Registered : Collect(n)
  \/ NextItem
  \/ FinalLock
  \/ FinalCommit
  \/ PassComplete
  \/ PassPending
  \/ PassSendNotifications
  \/ PassMarkSent
  \/ PassFailed
  \/ PassFinally

PassSpec == PassInit /\ [][PassNext]_vars

\* ------------------------------------------------- properties of one call
\* The call recorded in last was a process_scraped_result call.
Processed == last.op = "process"

SameKey(l, item_id, platform_id, url) ==
  l.item_id = item_id /\ l.platform_id = platform_id /\ l.url = url

\* The key of the last call had a listing when the call was made.
HadListing ==
  \E i \in 1..Len(last.listings0) :
     SameKey(last.listings0[i], last.item_id, last.platform_id, last.rec.url)

\* The listing of the last call's key, in the tables a call found or left.
ListingOf(L) ==
  CHOOSE i \in 1..Len(L) : SameKey(L[i], last.item_id, last.platform_id, last.rec.url)

\* Rows a call appended to a table.
Added(before, after) == SubSeq(after, Len(before) + 1, Len(after))

Extends(before, after) ==
  Len(after) >= Len(before) /\ SubSeq(after, 1, Len(before)) = before

EventTypes(E) == [i \in 1..Len(E) |-> E[i].event_type]

\* C1. Dedup invariant: no two listings share (item_id, platform_id, url),
\* and a call whose key already has a listing updates that listing (its
\* last_seen is the time of the call) and adds no listing.
DedupInvariant ==
  /\ \A i, j \in 1..Len(listings) :
        SameKey(listings[i], listings[j].item_id, listings[j].platform_id,
                listings[j].url) => i = j
  /\ (Processed /\ HadListing) =>
        /\ Len(listings) = Len(last.listings0)
        /\ listings[ListingOf(last.listings0)].last_seen = clock - 1
        /\ \A i \in 1..Len(listings) :
              i # ListingOf(last.listings0) => listings[i] = last.listings0[i]

\* Two calls were made for one key that had no listing, and left one.
DedupWitness ==
  /\ Processed /\ HadListing
  /\ last.prev_op = "process"
  /\ last.prev_key = <<last.item_id, last.platform_id, last.rec.url>>
  /\ Len(last.listings0) = Len(listings)
  /\ \E i \in 1..Len(listings) : listings[i].first_seen = clock - 2

\* C2. A call for a key with no listing adds exactly one listing with the
\* record's status and price, exactly one event, of type new_item, and a
\* price_history row if and only if the record's price is not None.
NewItemClaim ==
  (Processed /\ ~HadListing) =>
     /\ Extends(last.listings0, listings)
     /\ Len(listings) = Len(last.listings0) + 1
     /\ LET l == listings[Len(listings)]
        IN /\ SameKey(l, last.item_id, last.platform_id, last.rec.url)
           /\ l.status = last.rec.status
           /\ l.price = last.rec.price
     /\ Extends(last.events0, events)
     /\ EventTypes(Added(last.events0, events)) = <<"new_item">>
     /\ events[Len(events)].listing_id = Len(listings)
     /\ Extends(last.prices0, prices)
     /\ Len(Added(last.prices0, prices)) = (IF last.rec.price # NoneF THEN 1 ELSE 0)

\* C3. Idempotence: a call that repeats the call made just before it (same
\* key, same record) adds no event and no price_history row, returns None,
\* and changes nothing of the listing but last_seen and last_checked.
Idempotence ==
  ( /\ Processed /\ last.prev_op = "process"
    /\ last.prev_key = <<last.item_id, last.platform_id, last.rec.url>>
    /\ last.prev_rec = last.rec ) =>
     /\ events = last.events0
     /\ prices = last.prices0
     /\ last.changes = <<>> /\ last.returned = 0
     /\ Len(listings) = Len(last.listings0)
     /\ \A i \in 1..Len(listings) :
          [listings[i] EXCEPT !.last_seen = 0, !.last_checked = 0]
            = [last.listings0[i] EXCEPT !.last_seen = 0, !.last_checked = 0]

\* A record with another price and another status than the listing had was
\* reconciled twice in a row: the first call wrote two events, the second
\* only refreshed last_seen.
IdempotenceWitness ==
  /\ Processed /\ last.prev_op = "process"
  /\ last.prev_key = <<last.item_id, last.platform_id, last.rec.url>>
  /\ last.prev_rec = last.rec
  /\ TruthyF(last.rec.price)
  /\ Len(last.events0) = 3
  /\ Len(listings) = 1
  /\ listings[ListingOf(listings)].last_seen = clock - 1
  /\ listings[ListingOf(listings)].first_seen < clock - 1

\* The status event the last call emitted for an existing listing: the types
\* of the added events that are not price_change.
StatusEvents ==
  LET A == Added(last.events0, events)
  IN { i \in 1..Len(A) : A[i].event_type # "price_change" }

StoredStatus == last.listings0[ListingOf(last.listings0)].status

StatusDiffers == Processed /\ HadListing /\ last.rec.status # StoredStatus

EmittedStatusType ==
  LET A == Added(last.events0, events)
  IN A[CHOOSE i \in StatusEvents : TRUE].event_type

\* C4 as claimed: sold -> available gives back_in_stock, available -> sold
\* gives sold_out, every other differing pair gives status_change.
StatusTableClaimed ==
  StatusDiffers =>
     /\ Cardinality(StatusEvents) = 1
     /\ EmittedStatusType =
          (IF StoredStatus = "sold" /\ last.rec.status = "available"
             THEN "back_in_stock"
           ELSE IF StoredStatus = "available" /\ last.rec.status = "sold"
             THEN "sold_out"
           ELSE "status_change")

\* C4 as amended: sold -> available gives back_in_stock; any differing
\* status -> sold (from available or from ended) gives sold_out; the other
\* differing pairs (available -> ended, sold -> ended, ended -> available)
\* give status_change.  Exactly one status event is emitted, with the old
\* and the new status as its values.
StatusTable ==
  StatusDiffers =>
     /\ Cardinality(StatusEvents) = 1
     /\ LET old == StoredStatus
            new == last.rec.status
            t   == EmittedStatusType
        IN /\ (old = "sold" /\ new = "available") => t = "back_in_stock"
           /\ (old = "available" /\ new = "sold") => t = "sold_out"
           /\ (old = "ended" /\ new = "sold") => t = "sold_out"
           /\ (old = "available" /\ new = "ended") => t = "status_change"
           /\ (old = "sold" /\ new = "ended") => t = "status_change"
           /\ (old = "ended" /\ new = "available") => t = "status_change"
     /\ events[Len(events)].old_value = StoredStatus
     /\ events[Len(events)].new_value = last.rec.status

\* An ended listing was reported sold.
StatusTableWitness ==
  /\ StatusDiffers
  /\ StoredStatus = "ended" /\ last.rec.status = "sold"
  /\ events[Len(events)].event_type = "sold_out"

\* C5 as claimed: a listing stored as sold or ended that is reported
\* available gets a back_in_stock event.
BackInStockClaimed ==
  ( /\ Processed /\ HadListing
    /\ StoredStatus \in {"sold", "ended"}
    /\ last.rec.status = "available" ) =>
     \E i \in 1..Len(Added(last.events0, events)) :
        Added(last.events0, events)[i].event_type = "back_in_stock"

\* C5 as amended: a listing stored as sold that is reported available gets a
\* back_in_stock event; one stored as ended gets a status_change event and
\* no back_in_stock event.
BackInStock ==
  (Processed /\ HadListing /\ last.rec.status = "available") =>
     LET T == EventTypes(Added(last.events0, events))
         has(t) == \E i \in 1..Len(T) : T[i] = t
     IN /\ StoredStatus = "sold" => has("back_in_stock")
        /\ StoredStatus = "ended" => has("status_change") /\ ~has("back_in_stock")

\* A listing stored as sold was reported available and is available now.
BackInStockWitness ==
  /\ Processed /\ HadListing
  /\ StoredStatus = "sold" /\ last.rec.status = "available"
  /\ listings[ListingOf(listings)].status = "available"

\* C6. For an existing listing, a record whose price is not None and differs
\* from the stored price adds one price_history row with the new price and
\* one price_change event (old_value the stored price, new_value the new
\* one) and stores the new price; a record whose price is None or equal
\* adds neither and leaves the stored price.
PriceChangeClaim ==
  (Processed /\ HadListing) =>
     LET l0  == last.listings0[ListingOf(last.listings0)]
         l   == listings[ListingOf(last.listings0)]
         A   == Added(last.events0, events)
         pce == { i \in 1..Len(A) : A[i].event_type = "price_change" }
         H   == Added(last.prices0, prices)
     IN IF last.rec.price # NoneF /\ last.rec.price # l0.price
        THEN /\ Len(H) = 1
             /\ H[1].price = last.rec.price /\ H[1].listing_id = l.id
             /\ Cardinality(pce) = 1
             /\ \A i \in pce : /\ A[i].old_value = StrPrice(l0.price)
                               /\ A[i].new_value = StrPrice(last.rec.price)
             /\ l.price = last.rec.price
        ELSE /\ H = <<>>
             /\ pce = {}
             /\ l.price = l0.price

\* C7. A call made while a run is current adds one event per change type it
\* detected (two when price and status both changed); the run's
\* changes_detected grows by the number of events added and its
\* new_listings_found by one exactly when the call created the listing.
EventsAndCounters ==
  (Processed /\ current_run # 0 /\ Len(last.runs0) >= current_run) =>
     LET A    == Added(last.events0, events)
         run0 == last.runs0[current_run]
         run  == runs[current_run]
     IN /\ Extends(last.events0, events)
        /\ EventTypes(A) = last.changes
        /\ \A i, j \in 1..Len(A) : A[i].event_type = A[j].event_type => i = j
        /\ run.changes_detected = run0.changes_detected + Len(A)
        /\ run.new_listings_found =
             run0.new_listings_found + (IF HadListing THEN 0 ELSE 1)
        /\ (HadListing /\ TruthyF(last.rec.price)
              /\ last.rec.price # last.listings0[ListingOf(last.listings0)].price
              /\ last.rec.status # StoredStatus) => Len(A) = 2

\* A call changed both the price and the status of a listing during a run.
EventsAndCountersWitness ==
  /\ Processed /\ current_run # 0 /\ HadListing
  /\ Len(Added(last.events0, events)) = 2
  /\ runs[current_run].changes_detected >= 2

\* ------------------------------------------------- properties of a pass
\* The platform tasks of a pass: every item with every registered adapter.
AllTasks == { <<ItemIds[i], n>> : i \in 1..Len(ItemIds), n \in Registered }

\* scrape_all went through all items.
ScrapedAll == stats.items_checked = Len(ItemIds)

\* The orders in which the registered adapters can be run one after another.
Orders ==
  { o \in [1..Len(adapters) -> Registered] :
       \A i, j \in 1..Len(adapters) : o[i] = o[j] => i = j }

Tables(L, E, P) == [listings |-> L, events |-> E, prices |-> P]

\* The records of one task reconciled in turn.
RECURSIVE ApplyRecords(_, _, _, _)
ApplyRecords(st, item_id, n, recs) ==
  IF recs = <<>> THEN st
  ELSE LET r == Reconcile(st.listings, st.events, st.prices, item_id,
                          PlatformId(n), Head(recs), 0)
       IN ApplyRecords(Tables(r.listings, r.events, r.prices), item_id, n,
                       Tail(recs))

\* The tasks of one item run in the order o, from position i on (a task
\* that returned before its scrape has no records).
RECURSIVE ApplyPlatforms(_, _, _, _)
ApplyPlatforms(st, item_id, o, i) ==
  IF i > Len(o) THEN st
  ELSE ApplyPlatforms(
         ApplyRecords(st, item_id, o[i],
                      IF <<item_id, o[i]>> \in DOMAIN pass.scraped
                      THEN pass.scraped[<<item_id, o[i]>>] ELSE <<>>),
         item_id, o, i + 1)

\* The sequential run of the whole pass, platforms in the order o, on the
\* tables the pass started from and the results its scrapes returned.
RECURSIVE SequentialRun(_, _, _)
SequentialRun(st, o, i) ==
  IF i > Len(ItemIds) THEN st
  ELSE SequentialRun(ApplyPlatforms(st, ItemIds[i], o, 1), o, i + 1)

\* Listings without ids and timestamps.
CanonListings(L) ==
  { [item_id |-> L[i].item_id, platform_id |-> L[i].platform_id,
     url |-> L[i].url, title |-> L[i].title, price |-> L[i].price,
     status |-> L[i].status, status_text |-> L[i].status_text,
     image_url |-> L[i].image_url, seller |-> L[i].seller,
     description |-> L[i].description, is_active |-> L[i].is_active] :
    i \in 1..Len(L) }

\* Events without ids and without the notified flag (set after the tasks,
\* by the notification step), by the key of their listing, with their number.
CanonEvents(L, E) ==
  LET canon(e) == [item_id |-> L[e.listing_id].item_id,
                   platform_id |-> L[e.listing_id].platform_id,
                   url |-> L[e.listing_id].url,
                   event_type |-> e.event_type, description |-> e.description,
                   old_value |-> e.old_value, new_value |-> e.new_value]
      all == { canon(E[i]) : i \in 1..Len(E) }
  IN { <<c, Cardinality({ i \in 1..Len(E) : canon(E[i]) = c })>> : c \in all }

\* C8. Concurrency safety: when the tasks of a pass ran in the worker pool
\* and none raised, the listings and the events (without ids and
\* timestamps) are those of running the same tasks, with the same scrape
\* results, one after another in any order of the platforms; no key has two
\* listings or two new_item events.
ConcurrencySafety ==
  (Concurrent /\ ScrapedAll /\ pass.raised = {}) =>
     /\ \A o \in Orders :
          LET ref == SequentialRun(
                       Tables(pass.listings0, pass.events0, pass.prices0), o, 1)
          IN /\ CanonListings(listings) = CanonListings(ref.listings)
             /\ CanonEvents(listings, events) = CanonEvents(ref.listings, ref.events)
             /\ Len(prices) = Len(ref.prices)
     /\ \A i, j \in 1..Len(listings) :
          SameKey(listings[i], listings[j].item_id, listings[j].platform_id,
                  listings[j].url) => i = j
     /\ \A i, j \in 1..Len(events) :
          ( /\ events[i].event_type = "new_item"
            /\ events[j].event_type = "new_item"
            /\ events[i].listing_id = events[j].listing_id ) => i = j

\* Two tasks of one item ran at the same time, both reconciled records, and
\* the pass went through.
ConcurrencySafetyWitness ==
  /\ Concurrent /\ mpc = "done" /\ pass.raised = {} /\ pass.overlapped
  /\ disabled = {}
  /\ pass.scraped[<<1, "mercari">>] = <<RecB, RecC>>
  /\ pass.scraped[<<1, "surugaya">>] = <<RecB, RecC>>
  /\ pass.listings0 # <<>>
  /\ Len(listings) = 4

\* The run row of the pass.
Run == runs[current_run]

ReconcileRaised == \E t \in pass.raised : t[3] = "reconcile"

PassEnded == mpc = "done" /\ current_run # 0

\* C11. In every pass that started a run, complete_scrape_run is called
\* exactly once: with completed when the pass succeeds, with failed when a
\* step after the start raised; never zero times and never twice.
CompleteOnce ==
  PassEnded =>
     /\ pass.completes = 1
     /\ pass.caught = NoneS => Run.status = "completed"
     /\ pass.caught # NoneS => Run.status = "failed"

\* C13. When run_scraper has returned, by whatever path (success, no
\* adapters, an exception at any step), close was called on every adapter
\* that was constructed, no browser session is open and the engine's session
\* is not open.
ResourcesReleased ==
  mpc = "done" =>
     /\ pass.closed = pass.constructed
     /\ browsers = {}
     /\ db # "open"

\* A pass whose two adapters had scraped ended in run_scraper's exception
\* handler, with both adapters and the session closed.
ResourcesReleasedWitness ==
  /\ mpc = "done"
  /\ pass.caught # NoneS
  /\ DOMAIN pass.scraped # {}
  /\ pass.closed = {"mercari", "surugaya"}
  /\ db = "closed"

\* The rows of a table are still there, with their ids.
RowsKept(T, U) ==
  /\ Len(U) >= Len(T)
  /\ \A i \in 1..Len(T) : U[i].id = T[i].id

\* C14. Partial progress is never rolled back: no step of a pass, a failing
\* one included, removes a listing, a price_history row or an event that
\* was committed: listings keep their key and first_seen, price_history
\* rows are unchanged, events are unchanged but for the notified flag.
ProgressKept ==
  [][ /\ RowsKept(listings, listings')
      /\ \A i \in 1..Len(listings) :
            /\ SameKey(listings'[i], listings[i].item_id,
                       listings[i].platform_id, listings[i].url)
            /\ listings'[i].first_seen = listings[i].first_seen
      /\ RowsKept(prices, prices')
      /\ \A i \in 1..Len(prices) : prices'[i] = prices[i]
      /\ RowsKept(events, events')
      /\ \A i \in 1..Len(events) :
            [events'[i] EXCEPT !.notified = FALSE]
              = [events[i] EXCEPT !.notified = FALSE] ]_vars

\* A pass wrote listings, events and price rows, then a reconcile call
\* raised and later the pass failed; the rows written are in the store.
ProgressKeptWitness ==
  /\ PassEnded
  /\ ReconcileRaised
  /\ Run.status = "failed"
  /\ Len(listings) > Len(pass.listings0)
  /\ Len(events) > Len(pass.events0)
  /\ Len(prices) > Len(pass.prices0)

\* Position of an item in scrape_all's loop.
ItemIndex(id) == CHOOSE i \in 1..Len(ItemIds) : ItemIds[i] = id

\* C15. Items are processed one after another in both modes: a platform
\* task of an item is invoked only after every platform task of every
\* earlier item has returned and has been aggregated, and the tasks in the
\* pool are those of the current item.
ItemsSequential ==
  \A t \in pass.invoked :
     /\ ItemIndex(t[1]) <= item_ix
     /\ \A i \in 1..(ItemIndex(t[1]) - 1) : \A m \in Registered :
           <<ItemIds[i], m>> \in pass.aggregated

\* In concurrent mode two tasks of the second item are running; the two
\* tasks of the first item ran at the same time and were aggregated.
ItemsSequentialWitness ==
  /\ Concurrent /\ item_ix = 2
  /\ \A n \in Registered : Running(n)
  /\ Cardinality(pass.invoked) = 4
  /\ Cardinality(pass.aggregated) = 2
  /\ pass.overlapped

\* C16. In concurrent mode at most max_workers platform tasks are executing
\* at any time.
PoolBound ==
  Concurrent => Cardinality({ n \in Registered : Running(n) }) <= max_workers

\* With a pool of one worker and two adapters, one task is running and the
\* other waits in the pool's queue.
PoolBoundWitness ==
  /\ Concurrent /\ max_workers = 1 /\ Len(adapters) = 2
  /\ \E n, m \in Registered : Running(n) /\ tasks[m].pc = "queued"

\* C17. During a pass the number of open browser sessions of the adapters
\* never exceeds max_workers.
BrowserBound == Cardinality(browsers) <= max_workers

\* The session objects a task reads outside the lock where it stands: the
\* platform and the item before the scrape, the platform after its loop.
ReadsUnlocked(n) ==
  IF tasks[n].pc = "scrape" THEN {n, ItemObject(ItemIds[item_ix])}
  ELSE IF tasks[n].pc = "finish" THEN {n}
  ELSE {}

\* C18. A reconcile call is atomic with respect to the other tasks: a task
\* is inside the platform query, a reconcile or the error count only while
\* it holds the lock, at most one task is inside a reconcile, and while a
\* task is inside a reconcile no other task is performing a store operation
\* (none is reading from the store, outside the lock, the attributes of
\* session objects that a commit has expired).
ReconcileAtomic ==
  /\ \A n \in Registered :
        tasks[n].pc \in {"query_platform", "reconcile", "count_error"} => lock = n
  /\ \A n, m \in Registered :
        (tasks[n].pc = "reconcile" /\ tasks[m].pc = "reconcile") => n = m
  /\ \A n, m \in Registered :
        (n # m /\ tasks[m].pc = "reconcile") => Expired(ReadsUnlocked(n)) = {}

\* C19. No task holds the lock while its scrape is in progress: a task holds
\* the lock only inside the platform query, a reconcile body or the error
\* count, never before, during or after the scrape, and the lock is free
\* again on every way out of a task and of scrape_all, exceptions included.
NoLockAcrossScrape ==
  /\ \A n \in AdapterNames :
        lock = n => tasks[n].pc \in {"query_platform", "reconcile", "count_error"}
  /\ lock = "main" => mpc = "final_commit"
  /\ mpc \in {"complete", "pending", "notify", "mark", "except", "finally", "done"}
        => lock = "free"

\* A task whose platform query raised has counted its error and returned,
\* and the lock is free while its sibling is at its scrape.
NoLockAcrossScrapeWitness ==
  /\ lock = "free"
  /\ \E n, m \in Registered :
        /\ tasks[n].pc = "scrape"
        /\ tasks[m].pc = "finished" /\ tasks[m].error

\* --------------------------------------------------------------- ApiSpec
\* The stores the calls of ApiSpec are made on: those of PriorStores, and the
\* one left by reconciling RecA, RecB and RecC for item 1 on mercari (four
\* events).
ApiStores ==
  PriorStores \cup
    { ApplyRecords(Tables(<<>>, <<>>, <<>>), 1, "mercari", <<RecA, RecB, RecC>>) }

\* The records process_scraped_result is called with in ApiSpec.
ApiRecords == {RecA, RecB, RecC}

\* The arguments complete_scrape_run is called with.
CompleteArgs ==
  { <<"completed", NoneS>>, <<"failed", StoreError>>, <<"failed", "">> }

ApiInit ==
  /\ \E st \in ApiStores :
        /\ listings = st.listings
        /\ events = st.events
        /\ prices = st.prices
  /\ runs = <<>>
  /\ current_run = 0
  /\ clock = 1
  /\ calls = 0
  /\ last = NoCall
  /\ adapters = <<>>
  /\ parallel = TRUE
  /\ max_workers = 4
  /\ send_email = TRUE
  /\ mpc = "idle"
  /\ item_ix = 0
  /\ tasks = [n \in AdapterNames |-> IdleTask]
  /\ lock = "free"
  /\ stats = NoStats
  /\ faults = 0
  /\ pass = NoPass
  /\ loaded = {}
  /\ browsers = {}
  /\ db = "open"
  /\ disabled = {}
  /\ no_keywords = {}
  /\ platform_rows = <<"mercari", "surugaya">>
  /\ config_enabled = AdapterNames
  /\ stored_runs = <<>>

\* The record of an engine call of ApiSpec.
ApiCall(op, arg, returned) ==
  [op |-> op, arg |-> arg, returned |-> returned, events0 |-> events,
   runs0 |-> runs]

\* ScraperEngine.start_scrape_run(), whatever current_run holds.
ApiStartScrapeRun ==
  /\ calls < MaxOps
  /\ runs' = Append(runs, ScrapeRun(Len(runs) + 1, clock))
  /\ current_run' = Len(runs) + 1
  /\ clock' = clock + 1
  /\ calls' = calls + 1
  /\ last' = ApiCall("start", 0, <<>>)
  /\ UNCHANGED <<listings, events, prices, passVars>>
  /\ stored_runs' = runs'

\* ScraperEngine.complete_scrape_run(status, errors).
ApiCompleteScrapeRun ==
  /\ calls < MaxOps
  /\ \E a \in CompleteArgs :
        runs' = IF current_run = 0 THEN runs
                ELSE [runs EXCEPT ![current_run] = CompleteRun(@, a[1], a[2], clock)]
  /\ clock' = clock + 1
  /\ calls' = calls + 1
  /\ last' = ApiCall("complete", 0, <<>>)
  /\ UNCHANGED <<listings, events, prices, current_run, passVars>>
  /\ stored_runs' = IF current_run = 0 THEN stored_runs ELSE runs'

\* ScraperEngine.get_pending_notifications().
ApiGetPendingNotifications ==
  /\ calls < MaxOps
  /\ calls' = calls + 1
  /\ last' = ApiCall("pending", 0, GetPendingNotifications(events))
  /\ UNCHANGED <<storeVars, passVars>>
  /\ UNCHANGED stored_runs

\* ScraperEngine.mark_notification_sent(event_id), for the ids of the events
\* and for two ids no event has.
ApiMarkNotificationSent ==
  /\ calls < MaxOps
  /\ \E event_id \in 0..(Len(events) + 1) :
        /\ events' = MarkNotificationSent(events, event_id)
        /\ stored_runs' = IF event_id \in 1..Len(events) THEN runs ELSE stored_runs
        /\ last' = ApiCall("mark", event_id, <<>>)
  /\ calls' = calls + 1
  /\ UNCHANGED <<listings, prices, runs, current_run, clock, passVars>>

\* ScraperEngine.process_scraped_result(item, platform, scraped_item) for
\* item 1 on mercari, between the other calls.
ApiProcessScrapedResult ==
  /\ calls < MaxOps
  /\ \E rec \in ApiRecords :
       LET r == Reconcile(listings, events, prices, 1, PlatformId("mercari"),
                          rec, clock)
       IN /\ listings' = r.listings
          /\ events' = r.events
          /\ prices' = r.prices
          /\ runs' = UpdateRunStats(runs, current_run, r.changes)
          /\ last' = ApiCall("process", 0, <<>>)
  /\ clock' = clock + 1
  /\ calls' = calls + 1
  /\ UNCHANGED <<current_run, passVars>>
  /\ stored_runs' = runs

ApiNext ==
  \/ ApiStartScrapeRun
  \/ ApiCompleteScrapeRun
  \/ ApiGetPendingNotifications
  \/ ApiMarkNotificationSent
  \/ ApiProcessScrapedResult

ApiSpec == ApiInit /\ [][ApiNext]_vars

\* C12. At most one run of an engine has status running, after any sequence
\* of start_scrape_run and complete_scrape_run calls.
OneOpenRun ==
  Cardinality({ i \in 1..Len(runs) : runs[i].status = "running" }) <= 1

\* C20. get_pending_notifications returns exactly the events whose notified
\* flag is false, each once, and changes none.  mark_notification_sent(id)
\* sets the flag of the event with that id and changes no other event;
\* for an event already marked, or an id no event has, it changes nothing.
Notifications ==
  /\ last.op = "pending" =>
        /\ events = last.events0
        /\ { last.returned[i] : i \in 1..Len(last.returned) }
             = { events[i] : i \in { j \in 1..Len(events) : ~events[j].notified } }
        /\ Len(last.returned)
             = Cardinality({ j \in 1..Len(events) : ~events[j].notified })
  /\ last.op = "mark" =>
        /\ Len(events) = Len(last.events0)
        /\ \A i \in 1..Len(events) :
              i # last.arg => events[i] = last.events0[i]
        /\ last.arg \in 1..Len(events) =>
              events[last.arg] = [last.events0[last.arg] EXCEPT !.notified = TRUE]
        /\ (last.arg \notin 1..Len(events) \/ last.events0[last.arg].notified)
              => events = last.events0

\* An event that was marked is marked again while other events of the store
\* are pending.
NotificationsWitness ==
  /\ last.op = "mark"
  /\ last.arg \in 1..Len(events)
  /\ last.events0[last.arg].notified
  /\ Len(events) = 4
  /\ Cardinality({ j \in 1..Len(events) : ~events[j].notified }) >= 2

\* C21. Every event is created with notified false; the flag of an event
\* becomes true only in a mark_notification_sent call (never in a
\* process_scraped_result call, a run call or a step of the pass outside its
\* marking loop), and a flag that is true stays true.
NotifiedOnlyByMark ==
  [][ /\ Len(events') >= Len(events)
      /\ \A i \in 1..Len(events) : events[i].notified => events'[i].notified
      /\ \A i \in (Len(events) + 1)..Len(events') : ~events'[i].notified
      /\ (\E i \in 1..Len(events) : ~events[i].notified /\ events'[i].notified)
            => (last'.op = "mark" \/ mpc = "mark") ]_vars

\* A process_scraped_result call added an event to a listing one of whose
\* events had been marked: the marked event is still marked, the new one is
\* pending.
NotifiedOnlyByMarkWitness ==
  /\ last.op = "process"
  /\ Len(events) > Len(last.events0)
  /\ \E i \in 1..Len(last.events0) :
        /\ events[i].notified
        /\ events[i].listing_id = events[Len(events)].listing_id
  /\ ~events[Len(events)].notified

\* C22. An event is marked only after the mail with the pending events of the
\* pass went out, and only if it was one of them; when the pass ends without
\* the mail having gone out (send_email off, mail disabled, the sending or
\* an earlier step failed) no event is marked and every event the pass found
\* pending is still returned by get_pending_notifications.
MarkedAfterSent ==
  /\ \A i \in 1..Len(events) :
        events[i].notified =>
           /\ pass.sent
           /\ \E k \in 1..pass.mark_ix : pass.pending[k] = i
  /\ (mpc = "done" /\ ~pass.sent) =>
        LET again == GetPendingNotifications(events)
        IN /\ \A i \in 1..Len(events) : ~events[i].notified
           /\ \A k \in 1..Len(pass.pending) :
                 \E j \in 1..Len(again) : again[j].id = pass.pending[k]

\* The mail went out and the pending events of the pass, the events of this
\* pass among them, were all marked.
MarkedAfterSentWitness ==
  /\ mpc = "done" /\ pass.sent /\ pass.returned = "True"
  /\ Len(pass.pending) >= 2
  /\ Len(events) > Len(pass.events0)
  /\ \A k \in 1..Len(pass.pending) : events[pass.pending[k]].notified

\* C23. When scrape_all has returned, the run's items_checked,
\* platforms_checked, new_listings_found, changes_detected and error_count
\* equal the returned stats' items_checked, platforms_checked, new_listings,
\* changes and errors.
RunMirrorsStats ==
  (mpc = "complete" /\ current_run # 0) =>
     /\ Run.items_checked = stats.items_checked
     /\ Run.platforms_checked = stats.platforms_checked
     /\ Run.new_listings_found = stats.new_listings
     /\ Run.changes_detected = stats.changes
     /\ Run.error_count = stats.errors

\* The tasks of the pass that raised.
RaisedTasks == { <<t[1], t[2]>> : t \in pass.raised }

\* C24. When scrape_all has returned, platforms_checked is the number of
\* platform tasks that completed without raising, and every task is counted
\* once, in platforms_checked or in errors, the tasks of a platform whose
\* row is disabled included.
TasksAccounted ==
  mpc = "complete" =>
     /\ stats.platforms_checked = Cardinality(AllTasks \ RaisedTasks)
     /\ stats.platforms_checked + stats.errors = Cardinality(AllTasks)

\* The row of the pass's run as committed in the store.
StoredRun == stored_runs[current_run]

\* Scenario A: a fresh store, one platform, the scrape of the first item
\* returned one record, available at price 1000, nothing else was scraped
\* and nothing raised.
ScenarioA ==
  /\ pass.listings0 = <<>>
  /\ adapters = <<"mercari">>
  /\ disabled = {}
  /\ faults = 0
  /\ pass.scraped = [k \in {<<1, "mercari">>, <<2, "mercari">>} |->
                       IF k[1] = 1 THEN <<RecA>> ELSE <<>>]

\* C25. After a pass, the committed run's new_listings_found is the number
\* of listings the pass created and its changes_detected the number of
\* events the pass created; after scenario A the store holds one listing
\* (available, price 1000) and one event, of type new_item, and the
\* committed new_listings_found is 1.
RunCountsPersisted ==
  PassEnded =>
     /\ StoredRun.new_listings_found = Len(listings) - Len(pass.listings0)
     /\ StoredRun.changes_detected = Len(events) - Len(pass.events0)
     /\ ScenarioA =>
           /\ Len(listings) = 1
           /\ listings[1].status = "available" /\ listings[1].price = 1000
           /\ EventTypes(events) = <<"new_item">>
           /\ StoredRun.new_listings_found = 1

\* ------------------------------------------------------------- MatchSpec
\* Strings are sequences of characters.  The characters titles are made of:
\* R and C, of which the names of characters and circles are made, the
\* kanji and kana da, ki, makura of the category keywords, and x for any
\* other character.
TitleChars == {"R", "C", "da", "ki", "makura", "x"}

\* ScrapedItem.title: the non-empty text of the page's title element.
Titles == UNION { [1..n -> TitleChars] : n \in 1..MaxTitle }

\* The character, circle and artist attributes of the Item rows.
Characters == { <<>>, <<"R">> }
Circles == { <<>>, <<"C">>, <<"C", "x">> }
Artists == { <<>>, <<"x">> }

\* dakimakura_keywords of _is_exact_match: five fixed keywords, as written
\* (kanji da, hiragana ki, kanji makura; hiragana da ...; katakana da, ki
\* ...; katakana ka, ba and the long-vowel mark; kanji da, makura).
DakimakuraKeywords ==
  { <<"da", "ki", "makura">>, <<"hda", "ki", "makura">>,
    <<"kda", "kki", "makura">>, <<"ka", "ba", "-">>, <<"da", "makura">> }

\* Python's "s in t" for strings: s is a contiguous part of t (the empty
\* string is part of every string).
Contains(t, part) ==
  \E i \in 0..(Len(t) - Len(part)) : SubSeq(t, i + 1, i + Len(part)) = part

\* dict.get(key, default).
Get(dict, key, default) == IF key \in DOMAIN dict THEN dict[key] ELSE default

\* Mutant: a product with an artist matches only titles that name the artist.
IsExactMatchWithArtist(title, item_config) ==
  LET character == Get(item_config, "character", <<>>)
      circle    == Get(item_config, "circle", <<>>)
      artist    == Get(item_config, "artist", <<>>)
  IN IF character # <<>> /\ ~Contains(title, character) THEN FALSE
     ELSE IF circle # <<>> /\ ~Contains(title, circle) THEN FALSE
     ELSE IF artist # <<>> /\ ~Contains(title, artist) THEN FALSE
     ELSE IF ~(\E kw \in DakimakuraKeywords : Contains(title, kw)) THEN FALSE
     ELSE TRUE

\* BaseAdapter._is_exact_match(scraped_item, item_config), statement by
\* statement (title_lower and artist are assigned and not used).
IsExactMatch(title, item_config) ==
  LET character == Get(item_config, "character", <<>>)
      circle    == Get(item_config, "circle", <<>>)
  IN IF character # <<>> /\ ~Contains(title, character) THEN FALSE
     ELSE IF circle # <<>> /\ ~Contains(title, circle) THEN FALSE
     ELSE IF ~(\E kw \in DakimakuraKeywords : Contains(title, kw)) THEN FALSE
     ELSE TRUE

\* The dict _scrape_platform passes to adapter.scrape_item: of the product's
\* identifying attributes it holds circle and artist (id, name_cn, name_jp
\* and search_keywords, which the matcher does not read, are left out).
ItemConfig(item) == [k \in {"circle", "artist"} |-> item[k]]

\* A title and a product, before the call.
NoMatch(title, item) ==
  [op |-> "none", title |-> title, item |-> item,
   item_config |-> [k \in {} |-> <<>>], returned |-> FALSE]

MatchInit ==
  /\ \E st \in PriorStores :
        /\ listings = st.listings
        /\ events = st.events
        /\ prices = st.prices
  /\ runs = <<>>
  /\ current_run = 0
  /\ clock = 1
  /\ calls = 0
  /\ \E t \in Titles, ch \in Characters, ci \in Circles, ar \in Artists :
        last = NoMatch(t, [character |-> ch, circle |-> ci, artist |-> ar])
  /\ adapters = <<>>
  /\ parallel = TRUE
  /\ max_workers = 4
  /\ send_email = TRUE
  /\ mpc = "idle"
  /\ item_ix = 0
  /\ tasks = [n \in AdapterNames |-> IdleTask]
  /\ lock = "free"
  /\ stats = NoStats
  /\ faults = 0
  /\ pass = NoPass
  /\ loaded = {}
  /\ browsers = {}
  /\ db = "open"
  /\ disabled = {}
  /\ no_keywords = {}
  /\ platform_rows = <<"mercari", "surugaya">>
  /\ config_enabled = AdapterNames
  /\ stored_runs = <<>>

\* _is_exact_match called with an item_config that holds any of the keys
\* character, circle and artist.
IsExactMatchCall ==
  /\ last.op = "none"
  /\ \E keys \in SUBSET {"character", "circle", "artist"} :
        LET item_config == [k \in keys |-> last.item[k]]
        IN last' = [last EXCEPT !.op = "match", !.item_config = item_config,
                                !.returned = IsExactMatch(last.title, item_config)]
  /\ UNCHANGED <<storeVars, calls, passVars, stored_runs>>

\* A record with the title is scraped for the product during a pass:
\* _scrape_platform builds the item_config, and scrape_item appends the
\* record to the results, which go to process_scraped_result, when
\* _is_exact_match accepts it.
ScrapeItemCall ==
  /\ last.op = "none"
  /\ last' = [last EXCEPT !.op = "scrape", !.item_config = ItemConfig(last.item),
                          !.returned = IsExactMatch(last.title, ItemConfig(last.item))]
  /\ UNCHANGED <<storeVars, calls, passVars, stored_runs>>

MatchNext == IsExactMatchCall \/ ScrapeItemCall

MatchSpec == MatchInit /\ [][MatchNext]_vars

\* C26. _is_exact_match is false exactly when the config's character is
\* non-empty and not part of the title, or its circle is non-empty and not
\* part of the title, or no category keyword is part of the title; the
\* result is the same for every artist, and the call changes nothing.
MatcherPure ==
  [][ last'.op = "match" =>
        LET t  == last'.title
            c  == last'.item_config
            ch == Get(c, "character", <<>>)
            ci == Get(c, "circle", <<>>)
        IN /\ last'.returned = FALSE <=>
                 \/ ch # <<>> /\ ~Contains(t, ch)
                 \/ ci # <<>> /\ ~Contains(t, ci)
                 \/ \A kw \in DakimakuraKeywords : ~Contains(t, kw)
           /\ \A a \in Artists :
                 IsExactMatch(t, [k \in DOMAIN c \cup {"artist"} |->
                                   IF k = "artist" THEN a ELSE c[k]])
                   = last'.returned
           /\ UNCHANGED <<storeVars, stored_runs, passVars, calls>> ]_vars

\* A title that holds the character, the circle and a keyword, but not the
\* artist of the config, was accepted.
MatcherPureWitness ==
  /\ last.op = "match" /\ last.returned
  /\ DOMAIN last.item_config = {"character", "circle", "artist"}
  /\ last.item_config["character"] # <<>>
  /\ last.item_config["circle"] # <<>>
  /\ last.item_config["artist"] # <<>>
  /\ ~Contains(last.title, last.item_config["artist"])

\* C27. The title of every record that reaches process_scraped_result for a
\* product holds the product's character when that is non-empty, the
\* product's circle when that is non-empty, and a category keyword.
ReachedRecordsMatch ==
  (last.op = "scrape" /\ last.returned) =>
     /\ last.item.character # <<>> => Contains(last.title, last.item.character)
     /\ last.item.circle # <<>> => Contains(last.title, last.item.circle)
     /\ \E kw \in DakimakuraKeywords : Contains(last.title, kw)

\* ------------------------------------------------------------- LiveSpec
\* The steps of a pass that are taken sooner or later once they can be: those
\* of the main thread and of the worker threads, store operations included.
\* adapter.scrape_item is a call into the browser, with no deadline set by
\* scrape_all: it is not among them.
Scheduled ==
  \/ InitializeDatabase
  \/ SetupAdapters
  \/ PassStartRun
  \/ QueryItems
  \/ Submit
  \/ \E n \in Registered : TaskStart(n)
  \/ \E n \in Registered : TaskLock(n)
  \/ \E n \in Registered : TaskQueryPlatform(n)
  \/ \E n \in Registered : TaskReconcile(n)
  \/ \E n \in Registered : TaskFinish(n)
  \/ \E n \in Registered : TaskCountError(n)
  \/ \E n \in Registered : Collect(n)
  \/ NextItem
  \/ FinalLock
  \/ FinalCommit
  \/ PassComplete
  \/ PassPending
  \/ PassSendNotifications
  \/ PassMarkSent
  \/ PassFailed
  \/ PassFinally

\* A pass in which a scrape call may never return.
LiveSpec == PassInit /\ [][PassNext]_vars /\ WF_vars(Scheduled)

\* C28. run_scraper returns in every pass, also when the scrape call of a
\* platform task never returns and the other tasks of the item have
\* completed: the task is given up and the pass goes on to the next item.
PassReturns == <>(mpc = "done")

\* C29. When scrape_all has returned, every task whose search or detail
\* extraction raised is counted once in the pass's error count, next to the
\* tasks that raised at the store, and every task was scraped, once, except
\* those that ended before their scrape (the platform row could not be read
\* or is disabled).
ScrapeFailureCounted ==
  mpc = "complete" =>
     /\ stats.errors = Cardinality(RaisedTasks \cup pass.scrape_errors)
     /\ DOMAIN pass.scraped =
           { t \in AllTasks : /\ t[2] \notin disabled
                              /\ <<t[1], t[2], "platform">> \notin pass.raised }

\* C30. The tasks of an item without search keywords get no result and call
\* no search, on every platform; the pass creates no listing and no event for
\* the item, no task of it raises past the read of its platform row, the
\* errors counted are those of the tasks that raised, the tasks counted as
\* checked are the others whose platform row is enabled, and every task of
\* every item is invoked.
NoKeywordsZeroResult ==
  /\ \A t \in DOMAIN pass.scraped :
        t[1] \in no_keywords => pass.scraped[t] = <<>>
  /\ \A t \in pass.searched \cup pass.scrape_errors : t[1] \notin no_keywords
  /\ \A i \in (Len(pass.listings0) + 1)..Len(listings) :
        listings[i].item_id \notin no_keywords
  /\ \A i \in (Len(pass.events0) + 1)..Len(events) :
        \A j \in 1..Len(listings) :
           listings[j].id = events[i].listing_id =>
              listings[j].item_id \notin no_keywords
  /\ \A t \in pass.raised : t[1] \in no_keywords => t[3] = "platform"
  /\ mpc = "complete" =>
        /\ stats.errors = Cardinality(RaisedTasks)
        /\ stats.platforms_checked =
              Cardinality({ t \in AllTasks \ RaisedTasks : t[2] \notin disabled })
        /\ pass.invoked = AllTasks

\* The first item has no keywords: its two tasks were scraped without a
\* search and counted as checked, and the pass went on to the second item,
\* which was searched on both platforms and gave a new listing.
NoKeywordsZeroResultWitness ==
  /\ mpc = "complete"
  /\ no_keywords = {1}
  /\ Len(adapters) = 2
  /\ pass.raised = {}
  /\ \A n \in Registered :
        /\ <<1, n>> \in DOMAIN pass.scraped \ pass.searched
        /\ <<2, n>> \in pass.searched
  /\ stats.platforms_checked = 4
  /\ stats.errors = 0
  /\ Len(listings) > Len(pass.listings0)

\* Rows of a table that carry the listing's id.
RowsOf(T, lid) == { i \in 1..Len(T) : T[i].listing_id = lid }

\* The price_change events among the events a call appended.
AppendedPriceChanges ==
  { i \in (Len(last.events0) + 1)..Len(events) :
       events[i].event_type = "price_change" }

\* C31. PriceHistory is append-only and complete, call by call: a
\* process_scraped_result call leaves the rows it found as they were, and
\* appends one row when it created the listing from a record with a price
\* plus one row for each price_change event it emitted, all for the
\* listing of the call.
PriceHistoryComplete ==
  last.op = "process" =>
     /\ Len(prices) >= Len(last.prices0)
     /\ SubSeq(prices, 1, Len(last.prices0)) = last.prices0
     /\ Len(prices) - Len(last.prices0) =
          (IF last.existing = 0 /\ last.rec.price # NoneF THEN 1 ELSE 0)
             + Cardinality(AppendedPriceChanges)
     /\ \A i \in (Len(last.prices0) + 1)..Len(prices) :
          prices[i].listing_id =
             ExistingListing(listings, last.item_id, last.platform_id, last.rec.url)

\* C32. No step of a pass removes a listing or makes one inactive: every
\* listing of the store is still there after the step, under its id and
\* key, and every listing is active, those that no scrape of the pass
\* returned included.
ListingsKept ==
  [][/\ Len(listings') >= Len(listings)
     /\ \A i \in 1..Len(listings') : listings'[i].is_active
     /\ \A i \in 1..Len(listings) :
          /\ listings'[i].id = listings[i].id
          /\ listings'[i].item_id = listings[i].item_id
          /\ listings'[i].platform_id = listings[i].platform_id
          /\ listings'[i].url = listings[i].url
          /\ listings'[i].first_seen = listings[i].first_seen]_vars

\* The pass found a listing of the first item on mercari, every scrape of
\* the first item returned nothing, the second item gave new listings, and
\* at the end the old listing is there as it was, active.
ListingsKeptWitness ==
  /\ mpc = "done"
  /\ pass.listings0 # <<>>
  /\ Len(adapters) = 2 /\ disabled = {} /\ pass.raised = {}
  /\ DOMAIN pass.scraped = AllTasks
  /\ \A n \in Registered : pass.scraped[<<1, n>>] = <<>>
  /\ Len(listings) > Len(pass.listings0)
  /\ listings[1] = pass.listings0[1]
  /\ listings[1].is_active

\* -------------------------------------------------------------- InitSpec
\* The platform keys of platforms.yaml, in the order of the file.
ConfigOrder == <<"mercari", "surugaya">>

\* Is there a row of table platforms with this name?
HasRow(rows, name) == \E i \in 1..Len(rows) : rows[i] = name

\* ScraperEngine._init_platforms: the table and the set of rows with
\* enabled = False it leaves, for the keys from position k on.  A key the
\* configuration disables is skipped; a key without a row gets one, with
\* enabled = config.get('enabled', True), true at this point; a row that
\* exists is left as it is.
RECURSIVE InitPlatforms(_, _, _, _)
InitPlatforms(rows, off, cfg, k) ==
  IF k > Len(ConfigOrder) THEN [rows |-> rows, disabled |-> off]
  ELSE IF ConfigOrder[k] \notin cfg THEN InitPlatforms(rows, off, cfg, k + 1)
  ELSE IF HasRow(rows, ConfigOrder[k]) THEN InitPlatforms(rows, off, cfg, k + 1)
  ELSE InitPlatforms(Append(rows, ConfigOrder[k]),
                     IF ConfigOrder[k] \in cfg THEN off
                     ELSE off \cup {ConfigOrder[k]},
                     cfg, k + 1)

\* The store and the configuration before the first run of the program.
ConfigInit ==
  /\ listings = <<>> /\ events = <<>> /\ prices = <<>>
  /\ runs = <<>>
  /\ current_run = 0
  /\ clock = 1
  /\ calls = 0
  /\ last = NoCall
  /\ adapters = <<>>
  /\ parallel = TRUE
  /\ max_workers = 4
  /\ send_email = TRUE
  /\ mpc = "idle"
  /\ item_ix = 0
  /\ tasks = [n \in AdapterNames |-> IdleTask]
  /\ lock = "free"
  /\ stats = NoStats
  /\ faults = 0
  /\ pass = NoPass
  /\ loaded = {}
  /\ browsers = {}
  /\ db = "none"
  /\ disabled = {}
  /\ no_keywords = {}
  /\ platform_rows = <<>>
  /\ config_enabled \in SUBSET AdapterNames
  /\ stored_runs = <<>>

initVars ==
  <<runs, current_run, adapters, parallel, max_workers, send_email, mpc,
    item_ix, tasks, lock, stats, faults, pass, loaded, browsers,
    no_keywords, stored_runs>>

\* The operator edits enabled of one platform in platforms.yaml between two
\* runs of the program.
EditConfig ==
  /\ calls < MaxOps
  /\ \E n \in AdapterNames :
        config_enabled' = IF n \in config_enabled
                          THEN config_enabled \ {n}
                          ELSE config_enabled \cup {n}
  /\ calls' = calls + 1
  /\ last' = [NoCall EXCEPT !.op = "edit", !.prev_op = last.op]
  /\ UNCHANGED <<listings, events, prices, clock, platform_rows, disabled, db>>
  /\ UNCHANGED initVars

\* ScraperEngine.initialize_database at the start of a run.
ConfigInitializeDatabase ==
  /\ calls < MaxOps
  /\ LET r == InitPlatforms(platform_rows, disabled, config_enabled, 1)
     IN /\ platform_rows' = r.rows
        /\ disabled' = r.disabled
  /\ db' = "open"
  /\ calls' = calls + 1
  /\ last' = [NoCall EXCEPT !.op = "init", !.prev_op = last.op,
                            !.listings0 = listings]
  /\ UNCHANGED <<listings, events, prices, clock, config_enabled>>
  /\ UNCHANGED initVars

\* process_scraped_result for a record an adapter of the run scraped: the
\* adapters of a run are those of the platforms the configuration enables,
\* and the task of a platform without a row returns before its scrape.
ConfigProcessScrapedResult ==
  /\ calls < MaxOps
  /\ db = "open"
  /\ \E i \in 1..Len(platform_rows), rec \in {RecA, RecC} :
       /\ platform_rows[i] \in config_enabled
       /\ platform_rows[i] \notin disabled
       /\ LET r == Reconcile(listings, events, prices, 1, i, rec, clock)
          IN /\ listings' = r.listings
             /\ events' = r.events
             /\ prices' = r.prices
             /\ last' = [NoCall EXCEPT !.op = "process", !.prev_op = last.op,
                                       !.item_id = 1, !.platform_id = i,
                                       !.rec = rec, !.listings0 = listings]
  /\ clock' = clock + 1
  /\ calls' = calls + 1
  /\ UNCHANGED <<platform_rows, disabled, config_enabled, db>>
  /\ UNCHANGED initVars

ConfigNext ==
  \/ EditConfig
  \/ ConfigInitializeDatabase
  \/ ConfigProcessScrapedResult

InitSpec == ConfigInit /\ [][ConfigNext]_vars

\* C33. After initialize_database has run with a platform that has a row
\* and that the configuration now disables, the row is still there with
\* enabled = False, and the listings of the store are the ones found.
DisabledByFlag ==
  last.op = "init" =>
     /\ listings = last.listings0
     /\ \A i \in 1..Len(platform_rows) :
          platform_rows[i] \notin config_enabled =>
             platform_rows[i] \in disabled

\* C34. A call on an existing listing stores the record's image_url, seller
\* and description where the record's value is non-empty and keeps the
\* stored value where it is empty or null, and it sets last_seen and
\* last_checked to the time of the call, with or without a change.
LastKnownGood ==
  (last.op = "process" /\ last.existing # 0) =>
     LET l  == listings[last.existing]
         l0 == last.listings0[last.existing]
     IN /\ l.image_url =
             IF TruthyS(last.rec.image_url) THEN last.rec.image_url ELSE l0.image_url
        /\ l.seller =
             IF TruthyS(last.rec.seller) THEN last.rec.seller ELSE l0.seller
        /\ l.description =
             IF TruthyS(last.rec.description) THEN last.rec.description
             ELSE l0.description
        /\ l.last_seen = clock - 1 /\ l.last_checked = clock - 1
        /\ l.last_seen > l0.last_seen
        /\ l.first_seen = l0.first_seen

\* A call that detected no change on a listing with a seller and a
\* description: the record has a new image, a null seller and an empty
\* description; the image is replaced, seller and description are kept, and
\* the listing is seen at the time of the call.
LastKnownGoodWitness ==
  /\ last.op = "process" /\ last.existing # 0
  /\ last.changes = <<>>
  /\ last.rec.seller = NoneS /\ last.rec.description = ""
  /\ last.listings0[last.existing].seller = "sel1"
  /\ last.listings0[last.existing].image_url = "img1"
  /\ listings[last.existing].seller = "sel1"
  /\ listings[last.existing].description = "d1"
  /\ listings[last.existing].image_url = "img2"
  /\ listings[last.existing].last_seen = clock - 1

\* C35. A call on an existing listing whose record's status differs from
\* the stored one leaves the record's status and status_text in the
\* listing and emits one status event, whatever its type; when the status
\* is the same, status and status_text stay as stored and no status event
\* is emitted.
StatusStored ==
  (last.op = "process" /\ last.existing # 0) =>
     LET l  == listings[last.existing]
         l0 == last.listings0[last.existing]
     IN IF last.rec.status # l0.status
        THEN /\ l.status = last.rec.status
             /\ l.status_text = last.rec.status_text
             /\ Cardinality(StatusEvents) = 1
             /\ EmittedStatusType \in {"back_in_stock", "sold_out", "status_change"}
        ELSE /\ l.status = l0.status
             /\ l.status_text = l0.status_text
             /\ StatusEvents = {}

\* A sold listing with status text st2 is scraped as available with status
\* text st1: back_in_stock is emitted and the listing holds the record's
\* status and status text.
StatusStoredWitness ==
  /\ last.op = "process" /\ last.existing # 0
  /\ last.listings0[last.existing].status = "sold"
  /\ last.listings0[last.existing].status_text = "st2"
  /\ last.rec.status = "available" /\ last.rec.status_text = "st1"
  /\ \E i \in 1..Len(last.changes) : last.changes[i] = "back_in_stock"
  /\ listings[last.existing].status = "available"
  /\ listings[last.existing].status_text = "st1"

\* The last row of a table that carries the listing's id (the table has one).
LastRowOf(T, lid) ==
  CHOOSE i \in RowsOf(T, lid) : \A j \in RowsOf(T, lid) : j <= i

\* C36. In every state of the store, every listing whose price is not null
\* has a PriceHistory row, and the last row appended for it carries the
\* listing's price.
PriceHistoryCurrent ==
  \A i \in 1..Len(listings) :
     listings[i].price # NoneF =>
        /\ RowsOf(prices, listings[i].id) # {}
        /\ prices[LastRowOf(prices, listings[i].id)].price = listings[i].price

\* The new_item events of a listing.
NewItemEvents(lid) ==
  { i \in RowsOf(events, lid) : events[i].event_type = "new_item" }

\* C37. In every state of the store a pass commits, each listing has exactly
\* one new_item event, every event carries the id of a listing of the store,
\* and a listing has a PriceHistory row of the time of its creation exactly
\* when its new_item event carries a price: the three rows of a creation
\* are committed together or not at all.
CreationAtomic ==
  /\ \A i \in 1..Len(events) : events[i].listing_id \in 1..Len(listings)
  /\ \A i \in 1..Len(prices) : prices[i].listing_id \in 1..Len(listings)
  /\ \A i \in 1..Len(listings) :
       /\ listings[i].id = i
       /\ Cardinality(NewItemEvents(i)) = 1
       /\ \A e \in NewItemEvents(i) :
            events[e].new_value # "N/A" <=>
               \E p \in RowsOf(prices, i) :
                  prices[p].recorded_at = listings[i].first_seen

\* A reconcile of the pass raised, another created a listing with a price,
\* and the pass ended.
CreationAtomicWitness ==
  /\ mpc = "done"
  /\ \E t \in pass.raised : t[3] = "reconcile"
  /\ Len(listings) > Len(pass.listings0)
  /\ \E i \in (Len(pass.listings0) + 1)..Len(listings) :
        /\ listings[i].price # NoneF
        /\ \E p \in RowsOf(prices, i) : prices[p].recorded_at = listings[i].first_seen

\* C38. In the committed table of runs, no step of a pass changes the status
\* or completed_at of a run that is completed or failed, and a running run
\* stays running or becomes completed or failed, whatever the pass does
\* after the run was completed.
RunStatusFinal ==
  [][\A i \in 1..Len(stored_runs) :
        /\ i <= Len(stored_runs')
        /\ stored_runs[i].status \in {"completed", "failed"} =>
             /\ stored_runs'[i].status = stored_runs[i].status
             /\ stored_runs'[i].completed_at = stored_runs[i].completed_at
        /\ stored_runs[i].status = "running" =>
             stored_runs'[i].status \in {"running", "completed", "failed"}]_vars

\* Is the task at a step that uses the engine's session: the platform
\* query, a reconcile, the error count, or a read of attributes that a
\* commit has expired and that the session loads from the store?
UsesSession(n) ==
  \/ tasks[n].pc \in {"query_platform", "reconcile", "count_error"}
  \/ Expired(ReadsUnlocked(n)) # {}

\* C39. In concurrent mode a task uses the engine's session, loads of expired
\* attributes of the shared Item and Platform objects included, only while
\* it holds the lock, and no two tasks use the session at the same time.
SessionUnderLock ==
  Concurrent =>
     /\ \A n \in Registered : UsesSession(n) => lock = n
     /\ \A n, m \in Registered :
           (UsesSession(n) /\ UsesSession(m)) => n = m

\* C40. No adapter is handed to a task while a task is using it: the task of
\* an adapter is submitted anew, or cleared for the next item, only when
\* the adapter's previous task has returned and was aggregated, and a task
\* that starts is the first of its item on its adapter, a registered one.
AdapterExclusive ==
  [][\A n \in AdapterNames :
        /\ (tasks'[n] # tasks[n] /\ tasks'[n].pc \in {"idle", "queued"}) =>
              tasks[n].pc \in {"idle", "collected"}
        /\ (tasks[n].pc = "queued" /\ tasks'[n].pc # "queued") =>
              /\ n \in Registered
              /\ tasks'[n].pc = "lock_platform"
              /\ <<ItemIds[item_ix], n>> \notin pass.invoked]_vars

\* In concurrent mode both adapters are at the scrape of the second item at
\* the same time, each after its search for the first item was done and its
\* task aggregated.
AdapterExclusiveWitness ==
  /\ Concurrent /\ Len(adapters) = 2
  /\ item_ix = 2
  /\ \A n \in Registered :
        /\ tasks[n].pc = "scrape"
        /\ <<1, n>> \in pass.searched
        /\ <<1, n>> \in pass.aggregated
        /\ n \in browsers

====
